---- MODULE Spec2Model ----
(***************************************************************************)
(* sharkDB storage core: the paged store (internal/pager2) with its free   *)
(* list, page cache and write-ahead log, as a state machine.               *)
(*                                                                         *)
(* The disk is the data file (page 0 = metadata image, pages 1..N-1), and  *)
(* the WAL file (a byte sequence).  A process holds the in-memory Meta,    *)
(* the page cache and the WAL handle's file offset.  A call of the pager   *)
(* runs under the pager mutex, so one call is one step; a call may be cut  *)
(* short by a process crash before any of its file writes.                 *)
(***************************************************************************)
EXTENDS Integers, Sequences, FiniteSets, TLC

\* ---------------------------------------------------------------- scale
\* Page size of the model (the program's is 4096): header 12 bytes + body.
PageSize == 13
headerSize == 12
capPerPage == PageSize - headerSize
walHeaderSize == 17
maxCache == 512

\* Pages of the data file, page 0 included, that the model lets the file grow to.
MaxPages == 4
\* Processes that open the database one after the other.
MaxSessions == 3
\* StoreTableBlob / DeleteTableBlob calls made in all.
MaxCalls == 4

TableIds == {1, 2}
\* keys of the B+ tree claims: 1..MaxKey, and the Insert / Delete calls made on a tree
\* table names, and the calls of the catalog made on a database
Names == {"a", "b"}
MaxCatCalls == 5
\* capacity of the page cache in the claims about eviction
CacheCap == 2
\* transactions begun in one run of the transaction manager
MaxTx == 4
\* calls of Commit and Abort followed on one transaction
MaxEnds == 2
\* StoreTableBlob / DeleteTableBlob calls of the writer goroutine
MaxLockCalls == 2
\* commands the connections of a server send in all
MaxSrvCmds == 3
MaxKey == 9
MaxTreeOps == 2
Keys == 1..MaxKey
Vals == {"x", "y"}
Blobs == {<<>>, <<1>>, <<2, 3>>}

\* ---------------------------------------------------------------- helpers
EmptyMap == [x \in {} |-> 0]
MapPut(f, k, v) == [x \in (DOMAIN f) \cup {k} |-> IF x = k THEN v ELSE f[x]]
MapDel(f, k) == [x \in (DOMAIN f) \ {k} |-> f[x]]
\* Go's m[k] on a map of integers: the zero value when k is missing
MapGet(f, k) == IF k \in DOMAIN f THEN f[k] ELSE 0

Zeros(n) == [k \in 1..n |-> 0]
\* binary.LittleEndian.PutUint64 / Uint64 on 8 bytes
RECURSIVE ShiftRight8(_, _)
ShiftRight8(v, k) == IF k = 0 THEN v ELSE ShiftRight8(v \div 256, k - 1)
PutUint64(v) == [k \in 1..8 |-> ShiftRight8(v, k - 1) % 256]
RECURSIVE Uint64From(_, _, _)
Uint64From(data, off, k) ==
    IF k > 8 THEN 0 ELSE data[off + k] + 256 * Uint64From(data, off, k + 1)
\* value of the 8 bytes data[off+1 .. off+8] (off is the 0-based Go offset)
Uint64(data, off) == Uint64From(data, off, 1)

ZeroPage == [next |-> 0, n |-> 0, data |-> Zeros(capPerPage)]
\* page := make([]byte, PageSize); PutUint32(page[8:12], len(chunk)); copy(page[12:], chunk)
PayloadPage(chunk) ==
    [next |-> 0, n |-> Len(chunk),
     data |-> [k \in 1..capPerPage |-> IF k <= Len(chunk) THEN chunk[k] ELSE 0]]

\* Meta{Tables, NextTableID, TableHead, FreeList}
EmptyMeta == [Tables |-> EmptyMap, NextTableID |-> 0, TableHead |-> EmptyMap, FreeList |-> 0]

\* file.WriteAt(bytes, off) on a byte sequence: a write past the end leaves a hole of zeros
FileWriteAt(file, off, bytes) ==
    LET newLen == IF off + Len(bytes) > Len(file) THEN off + Len(bytes) ELSE Len(file)
    IN [k \in 1..newLen |->
          IF k > off /\ k <= off + Len(bytes) THEN bytes[k - off]
          ELSE IF k <= Len(file) THEN file[k] ELSE 0]

\* ---------------------------------------------------------------- run state
\* The state a call works on: disk (pages = pages 1..N-1 of the data file, dmeta =
\* the image in page 0, <<>> while the file is shorter than a page, wal), process memory (meta,
\* cache, order, walOff), the registers of the running call (buf, rpid, plist, res),
\* the read fault of this run (rfuel = reads of the data file before one fails,
\* -1 = none), how the call ended (halt: "run" = it returned, "err" = it returned
\* an error, "hang" = it never returns), the file operations it made (ev), the
\* walFail checkpoint it passed last (stage), and the files as they were before
\* each of its file writes and at each checkpoint (trace): the files a process
\* that dies there leaves behind, and what its memory holds at that point.
Running(st) == st.halt = "run"
Halt(st, h) == IF Running(st) THEN [st EXCEPT !.halt = h] ELSE st
Event(st, e) == [st EXCEPT !.ev = Append(@, e)]
Files(st, at) == [pages |-> st.pages, dmeta |-> st.dmeta, wal |-> st.wal,
                  meta |-> st.meta, cache |-> st.cache, order |-> st.order,
                  stage |-> st.stage, at |-> at]
\* a file write is about to happen
Spend(st) == [st EXCEPT !.trace = Append(@, Files(st, "write"))]


\* ---------------------------------------------------------------- page cache
\* cacheGet: a hit moves pid to the end of order and returns a copy in buf
cacheHit(st, pid) == pid \in DOMAIN st.cache
cacheGet(st, pid) ==
    [st EXCEPT !.order = Append(SelectSeq(@, LAMBDA x : x # pid), pid),
               !.buf = st.cache[pid]]

\* cachePut: a new pid is appended to order, the front of order is dropped when
\* order is longer than p.maxCache, then the copy is stored
cachePut(st, pid, page) ==
    IF ~Running(st) THEN st
    ELSE IF pid \in DOMAIN st.cache
    THEN [st EXCEPT !.cache = MapPut(@, pid, page)]
    ELSE LET ord == Append(st.order, pid)
         IN IF Len(ord) > st.maxCache
            THEN [st EXCEPT !.order = Tail(ord),
                            !.cache = MapPut(MapDel(@, Head(ord)), pid, page)]
            ELSE [st EXCEPT !.order = ord, !.cache = MapPut(@, pid, page)]

\* ---------------------------------------------------------------- file operations
\* p.f.WriteAt(page, pid*PageSize): the whole page
fWriteAt(st, pid, page) ==
    IF ~Running(st) THEN st
    ELSE LET n == IF pid > Len(st.pages) THEN pid ELSE Len(st.pages)
         IN Event([Spend(st) EXCEPT !.pages = [k \in 1..n |->
                            IF k = pid THEN page
                            ELSE IF k <= Len(st.pages) THEN st.pages[k] ELSE ZeroPage]],
                  "page_write")

\* p.f.WriteAt(nb, pid*PageSize) with the 8 bytes of a next pointer
fWriteNext(st, pid, next) ==
    IF ~Running(st) THEN st
    ELSE Event([Spend(st) EXCEPT !.pages[pid].next = next], "page_write")

\* p.f.ReadAt(buf, pid*PageSize): fails past the end of the file, or when the
\* environment fails this read
fReadAt(st, pid) ==
    IF ~Running(st) THEN st
    ELSE IF pid > Len(st.pages) \/ st.rfuel = 0 THEN Halt(st, "err")
    ELSE [st EXCEPT !.buf = st.pages[pid], !.rfuel = IF @ > 0 THEN @ - 1 ELSE @,
                    !.reads = @ + 1]

\* ensureSize(f, size): f.Truncate(size), size = npages * PageSize
ensureSize(st, npages) ==
    IF ~Running(st) THEN st
    ELSE Event([Spend(st) EXCEPT !.pages = [k \in 1..(npages - 1) |->
                         IF k <= Len(st.pages) THEN st.pages[k] ELSE ZeroPage]],
               "file_extend")

\* p.wal.Write(bytes): at the handle's offset, which then advances
walWrite(st, bytes) ==
    IF ~Running(st) THEN st
    ELSE Event([Spend(st) EXCEPT !.wal = FileWriteAt(@, st.walOff, bytes),
                                 !.walOff = @ + Len(bytes)],
               "wal_write")

\* p.f.Sync()
fSync(st) == IF Running(st) THEN Event(st, "data_sync") ELSE st

\* p.cachePut(pid, buf) after a read that succeeded
cacheRead(s1, pid) == cachePut(s1, pid, s1.buf)

readPage(st, pid) ==
    IF ~Running(st) THEN st
    ELSE IF cacheHit(st, pid) THEN cacheGet(st, pid)
    ELSE cacheRead(fReadAt(st, pid), pid)

writePage(st, pid, page) == cachePut(fWriteAt(st, pid, page), pid, page)

\* length of the gob stream of a Meta, one unit per message part: the type
\* descriptors, every entry of the two maps, and each scalar field that is not 0
gobMetaLen(m) ==
    1 + Cardinality(DOMAIN m.Tables) + (IF m.NextTableID # 0 THEN 1 ELSE 0)
      + Cardinality(DOMAIN m.TableHead) + (IF m.FreeList # 0 THEN 1 ELSE 0)
\* the first PageSize units of a longer stream: no decoder reads a Meta from it
Truncated(m) == [image |-> "truncated", of |-> m]
IsTruncated(img) == "image" \in DOMAIN img
\* bytesWriter.Write drops what does not fit and returns no error, and
\* enc.Encode looks at the error only: page 0 gets the buffer as it is
gobMetaImage(m) == IF gobMetaLen(m) > PageSize THEN Truncated(m) ELSE m

\* gob image of Meta in page 0, then Sync
flushMeta(st) ==
    IF ~Running(st) THEN st
    ELSE Event(Event([Spend(st) EXCEPT !.dmeta = <<gobMetaImage(st.meta)>>], "meta_write"),
               "data_sync")

\* dec.Decode(&m): fails on a stream that was cut
loadMeta(st) ==
    IF ~Running(st) THEN st
    ELSE IF IsTruncated(st.dmeta[1]) THEN Halt(st, "err")
    ELSE [st EXCEPT !.meta = st.dmeta[1]]

\* walFail(point): os.Exit when SHARKDB_WAL_FAIL names this point
walFail(st, point) ==
    IF Running(st)
    THEN [st EXCEPT !.stage = point, !.trace = Append(@, Files([st EXCEPT !.stage = point], point))]
    ELSE st

\* ---------------------------------------------------------------- free list
\* p.meta.FreeList = pid
pushFree(st, pid) == IF Running(st) THEN [st EXCEPT !.meta.FreeList = pid] ELSE st
\* one turn of the loop, s1 = the state after readPage(pid): the page is written
\* with next = FreeList, then FreeList = pid
freePage(s1, pid) ==
    pushFree(writePage(s1, pid, [s1.buf EXCEPT !.next = s1.meta.FreeList]), pid)

RECURSIVE freeChainFrom(_, _, _)
RECURSIVE freeChainNext(_, _, _)
\* pid = next, next as read from the page before it was rewritten
freeChainNext(s1, pid, seen) == freeChainFrom(freePage(s1, pid), s1.buf.next, seen)

\* for pid != 0 { ... }; seen holds the configurations the loop has been in
freeChainFrom(st, pid, seen) ==
    IF ~Running(st) \/ pid = 0 THEN st
    ELSE IF <<pid, st.pages, st.cache, st.meta.FreeList>> \in seen
    THEN Halt(st, "hang")   \* the loop has come back to a state it was in
    ELSE freeChainNext(readPage(st, pid), pid,
                       seen \cup {<<pid, st.pages, st.cache, st.meta.FreeList>>})

\* a faulty variant of freeChain, for C3: it pushes the head page and stops there
freeChainHeadOnly(st, head) == freePage(readPage(st, head), head)

freeChain(st, head) == freeChainFrom(st, head, {})

\* return pid, nil
SetRpid(st, pid) == IF Running(st) THEN [st EXCEPT !.rpid = pid] ELSE st
\* p.meta.FreeList = next pointer of the page just read
popFree(s1) == IF Running(s1) THEN [s1 EXCEPT !.meta.FreeList = s1.buf.next] ELSE s1
\* pop from the free list, s1 = the state after readPage(pid)
allocPop(s1, pid) == SetRpid(writePage(popFree(s1), pid, [s1.buf EXCEPT !.next = 0]), pid)
\* a faulty variant of allocExtend, for C11: the page id is taken from the size
\* of the file before it was extended
allocExtendPrev(s1, pid) == SetRpid(cachePut(s1, pid - 1, ZeroPage), pid - 1)
\* allocate at the end, s1 = the state after ensureSize: the zero page is cached
allocExtend(s1, pid) == SetRpid(cachePut(s1, pid, ZeroPage), pid)

allocPage(st) ==
    IF ~Running(st) THEN st
    ELSE IF st.meta.FreeList # 0
    THEN allocPop(readPage(st, st.meta.FreeList), st.meta.FreeList)
    ELSE allocExtend(ensureSize(st, Len(st.pages) + 2), Len(st.pages) + 1)

\* ---------------------------------------------------------------- WAL helpers
\* if len(blob) > 0 { p.wal.Write(blob) }
walWriteBlob(s1, blob) == IF Len(blob) > 0 THEN walWrite(s1, blob) ELSE s1
walAppendStore(st, tableID, blob) ==
    walWriteBlob(walWrite(st, <<1>> \o PutUint64(tableID) \o PutUint64(Len(blob))), blob)

walAppendDelete(st, tableID) == walWrite(st, <<2>> \o PutUint64(tableID) \o PutUint64(0))

walSync(st) == IF Running(st) THEN Event(st, "wal_sync") ELSE st

truncateWAL(st) ==
    IF ~Running(st) THEN st
    ELSE Event([Spend(st) EXCEPT !.wal = <<>>], "wal_truncate")

\* ---------------------------------------------------------------- blob chains
SetTableHead(st, tableID, pid) ==
    IF Running(st) THEN [st EXCEPT !.meta.TableHead = MapPut(@, tableID, pid)] ELSE st
DeleteTableHead(st, tableID) ==
    IF Running(st) THEN [st EXCEPT !.meta.TableHead = MapDel(@, tableID)] ELSE st

\* end := off + capPerPage; if end > len(blob) { end = len(blob) }
ChunkEnd(blob, off) == IF off + capPerPage > Len(blob) THEN Len(blob) ELSE off + capPerPage
\* pages = append(pages, pid)
notePage(s1) == IF Running(s1) THEN [s1 EXCEPT !.plist = Append(@, s1.rpid)] ELSE s1
\* var next: pages[i+1], or 0 for the last page (i counts from 1)
NextOf(plist, i) == IF i + 1 <= Len(plist) THEN plist[i + 1] ELSE 0

\* for off := 0; off < len(blob); off += capPerPage { allocPage; writePage }
RECURSIVE writeChunks(_, _, _)
RECURSIVE writeChunk(_, _, _)
\* s1 = the state after allocPage
writeChunk(s1, blob, off) ==
    writeChunks(writePage(notePage(s1), s1.rpid,
                          PayloadPage(SubSeq(blob, off + 1, ChunkEnd(blob, off)))),
                blob, off + capPerPage)
writeChunks(st, blob, off) ==
    IF ~Running(st) \/ off >= Len(blob) THEN st
    ELSE writeChunk(allocPage(st), blob, off)

\* for i := 0; i < len(pages); i++ { readPage; set next; writePage }
RECURSIVE linkPages(_, _)
RECURSIVE linkPage(_, _)
\* s1 = the state after readPage(pages[i])
linkPage(s1, i) ==
    linkPages(writePage(s1, s1.plist[i], [s1.buf EXCEPT !.next = NextOf(s1.plist, i)]), i + 1)
linkPages(st, i) ==
    IF ~Running(st) \/ i > Len(st.plist) THEN st
    ELSE linkPage(readPage(st, st.plist[i]), i)

\* free old chain if exists: freeChain(head); TableHead[tableID] = 0
freeOld(st, tableID) ==
    IF MapGet(st.meta.TableHead, tableID) # 0
    THEN SetTableHead(freeChain(st, MapGet(st.meta.TableHead, tableID)), tableID, 0)
    ELSE st
\* p.meta.TableHead[tableID] = pages[0]
setHead(st, tableID) == IF Running(st) THEN SetTableHead(st, tableID, st.plist[1]) ELSE st
\* var pages []uint64
noPages(st) == [st EXCEPT !.plist = <<>>]

\* StoreTableBlob after the old chain is freed
storeChain(s2, tableID, blob) ==
    IF Len(blob) = 0
    THEN walSync(flushMeta(s2))
    ELSE walSync(fSync(flushMeta(setHead(
             walFail(linkPages(writeChunks(noPages(s2), blob, 0), 1), "before_meta_flush"),
             tableID))))

StoreTableBlob(st, tableID, blob) ==
    storeChain(freeOld(walFail(walAppendStore(st, tableID, blob), "after_wal_store"), tableID),
               tableID, blob)

\* DeleteTableBlob after the WAL append
deleteChain(s1, tableID) ==
    IF MapGet(s1.meta.TableHead, tableID) = 0
    THEN walSync(s1)
    ELSE walSync(flushMeta(DeleteTableHead(
             freeChain(s1, MapGet(s1.meta.TableHead, tableID)), tableID)))

DeleteTableBlob(st, tableID) ==
    deleteChain(walFail(walAppendDelete(st, tableID), "after_wal_delete"), tableID)

\* what LoadTableBlob returns: (nil, false) is Absent
Absent == [blob |-> <<>>, ok |-> FALSE]
Present(b) == [blob |-> b, ok |-> TRUE]

RECURSIVE loadWalk(_, _, _, _)
RECURSIVE loadPage(_, _, _)
\* s1 = the state after readPage(pid)
loadPage(s1, out, seen) ==
    IF ~Running(s1) THEN [s1 EXCEPT !.res = Absent]
    ELSE IF headerSize + s1.buf.n > PageSize THEN [s1 EXCEPT !.res = Absent]
    ELSE loadWalk(s1, s1.buf.next, out \o SubSeq(s1.buf.data, 1, s1.buf.n), seen)
\* for pid != 0 { ... }; seen holds the pages the walk has read
loadWalk(st, pid, out, seen) ==
    IF pid = 0 THEN [st EXCEPT !.res = Present(out)]
    ELSE IF pid \in seen THEN Halt(st, "hang")   \* for pid != 0 never ends
    ELSE loadPage(readPage(st, pid), out, seen \cup {pid})

LoadTableBlob(st, tableID) ==
    IF MapGet(st.meta.TableHead, tableID) = 0
    THEN [st EXCEPT !.res = Absent]
    ELSE loadWalk(st, MapGet(st.meta.TableHead, tableID), <<>>, {})

\* ---------------------------------------------------------------- recovery
\* replay of a STORE record: as StoreTableBlob, but the payload pages and the
\* next pointers go to the file with p.f.WriteAt, not through writePage
RECURSIVE replayChunks(_, _, _)
RECURSIVE replayChunk(_, _, _)
\* s1 = the state after allocPage
replayChunk(s1, blob, off) ==
    replayChunks(fWriteAt(notePage(s1), s1.rpid,
                          PayloadPage(SubSeq(blob, off + 1, ChunkEnd(blob, off)))),
                 blob, off + capPerPage)
replayChunks(st, blob, off) ==
    IF ~Running(st) \/ off >= Len(blob) THEN st
    ELSE replayChunk(allocPage(st), blob, off)

RECURSIVE replayLinks(_, _)
replayLinks(st, i) ==
    IF ~Running(st) \/ i > Len(st.plist) THEN st
    ELSE replayLinks(fWriteNext(st, st.plist[i], NextOf(st.plist, i)), i + 1)

\* if len(blob) > 0 { chunks; links; TableHead[tableID] = pages[0] }
replayChain(s1, tableID, blob) ==
    IF Len(blob) > 0
    THEN setHead(replayLinks(replayChunks(noPages(s1), blob, 0), 1), tableID)
    ELSE s1

replayStore(st, tableID, blob) == flushMeta(replayChain(freeOld(st, tableID), tableID, blob))

\* if head := p.meta.TableHead[tableID]; head != 0 { freeChain(head) }
freeIfAny(st, tableID) ==
    IF MapGet(st.meta.TableHead, tableID) # 0
    THEN freeChain(st, MapGet(st.meta.TableHead, tableID))
    ELSE st

\* a faulty variant of replayDelete, for C32: the chain is freed, the head stays
replayDeleteKeepHead(st, tableID) == flushMeta(freeIfAny(st, tableID))
\* replay of a DELETE record: the chain is freed and the head removed
replayDelete(st, tableID) == flushMeta(DeleteTableHead(freeIfAny(st, tableID), tableID))

\* for off+17 <= len(data) { ... }; data is the WAL as read at the start
RECURSIVE replayFrom(_, _, _)
replayFrom(st, data, off) ==
    IF ~Running(st) \/ off + walHeaderSize > Len(data) THEN st
    ELSE LET recType == data[off + 1]
             tableID == Uint64(data, off + 1)
             blobLen == Uint64(data, off + 9)
             body == off + walHeaderSize
         IN CASE recType = 1 ->
                   IF body + blobLen > Len(data) THEN st
                   ELSE replayFrom(replayStore(st, tableID, SubSeq(data, body + 1, body + blobLen)),
                                   data, body + blobLen)
              [] recType = 2 -> replayFrom(replayDelete(st, tableID), data, body)
              [] OTHER -> st

\* Seek(0,0) and io.ReadAll leave the handle's offset at the end of the WAL
replayWAL(st) == replayFrom([st EXCEPT !.walOff = Len(st.wal)], st.wal, 0)

\* Open: a data file shorter than one page is initialised; otherwise page 0 is
\* loaded, the WAL replayed and then truncated
Open(st) ==
    IF st.dmeta = <<>>
    THEN flushMeta([ensureSize(st, 1) EXCEPT !.meta = EmptyMeta])
    ELSE truncateWAL(replayWAL(loadMeta(st)))

\* ---------------------------------------------------------------- B+ tree
\* A tree in memory: Root is the address of the root node (0 = nil) and nodes the
\* Node objects allocated so far, by address. Keys are numbers in the order of
\* the strings they stand for; Children and Next hold addresses (0 = nil).
Order == 4

LeafNode(keys, values, next) ==
    [IsLeaf |-> TRUE, Keys |-> keys, Children |-> <<>>, Values |-> values, Next |-> next]
InnerNode(keys, children) ==
    [IsLeaf |-> FALSE, Keys |-> keys, Children |-> children, Values |-> <<>>, Next |-> 0]
\* &Node{...}: the new object gets the next address
NewNode(t, node) == [t EXCEPT !.nodes = Append(@, node)]
LastId(t) == Len(t.nodes)

New == [Root |-> 1, nodes |-> <<LeafNode(<<>>, <<>>, 0)>>]

\* sort.Search over keys[lo..hi): the first index (from 0) whose key is >= key,
\* or > key when strict
RECURSIVE Search(_, _, _, _, _)
Search(keys, key, strict, lo, hi) ==
    IF lo >= hi THEN lo
    ELSE IF (IF strict THEN keys[(lo + hi) \div 2 + 1] > key
                       ELSE keys[(lo + hi) \div 2 + 1] >= key)
    THEN Search(keys, key, strict, lo, (lo + hi) \div 2)
    ELSE Search(keys, key, strict, (lo + hi) \div 2 + 1, hi)
SearchStrings(keys, key) == Search(keys, key, FALSE, 0, Len(keys))
\* a faulty variant of upperBound, for C33: the first index whose key is >= key
upperBoundLower(keys, key) == Search(keys, key, FALSE, 0, Len(keys))
upperBound(keys, key) == Search(keys, key, TRUE, 0, Len(keys))

\* for !n.IsLeaf { n = n.Children[upperBound(n.Keys, key)] }
RECURSIVE findLeaf(_, _, _)
findLeaf(t, n, key) ==
    IF t.nodes[n].IsLeaf THEN n
    ELSE findLeaf(t, t.nodes[n].Children[upperBound(t.nodes[n].Keys, key) + 1], key)

NotFound == [value |-> "", ok |-> FALSE]
\* i = sort.SearchStrings(n.Keys, key)
getAt(node, i, key) ==
    IF i < Len(node.Keys) /\ node.Keys[i + 1] = key
    THEN [value |-> node.Values[i + 1], ok |-> TRUE]
    ELSE NotFound
getIn(node, key) == getAt(node, SearchStrings(node.Keys, key), key)
Get(t, key) ==
    IF t.Root = 0 THEN NotFound ELSE getIn(t.nodes[findLeaf(t, t.Root, key)], key)

\* append(s[:i], s[i+1:]...)
RemoveAt(s, i) == SubSeq(s, 1, i) \o SubSeq(s, i + 2, Len(s))
\* a faulty variant of deleteAt, for C20: the key stays, its value is blanked
deleteAtBlank(t, n, i, key) ==
    IF i < Len(t.nodes[n].Keys) /\ t.nodes[n].Keys[i + 1] = key
    THEN [t |-> [t EXCEPT !.nodes[n].Values[i + 1] = ""], ok |-> TRUE]
    ELSE [t |-> t, ok |-> FALSE]
deleteAt(t, n, i, key) ==
    IF i < Len(t.nodes[n].Keys) /\ t.nodes[n].Keys[i + 1] = key
    THEN [t |-> [t EXCEPT !.nodes[n].Keys = RemoveAt(@, i),
                          !.nodes[n].Values = RemoveAt(@, i)],
          ok |-> TRUE]
    ELSE [t |-> t, ok |-> FALSE]
deleteIn(t, n, key) == deleteAt(t, n, SearchStrings(t.nodes[n].Keys, key), key)
Delete(t, key) ==
    IF t.Root = 0 THEN [t |-> t, ok |-> FALSE]
    ELSE deleteIn(t, findLeaf(t, t.Root, key), key)

\* insertString / insertNode: val goes to index idx (from 0)
insertString(slice, idx, val) ==
    SubSeq(slice, 1, idx) \o <<val>> \o SubSeq(slice, idx + 1, Len(slice))
insertNode(slice, idx, val) ==
    SubSeq(slice, 1, idx) \o <<val>> \o SubSeq(slice, idx + 1, Len(slice))

\* splitLeaf: the new right leaf takes Keys[mid:] and Values[mid:], n keeps the rest
splitLeafAt(t, n, mid) ==
    NewNode([t EXCEPT !.nodes[n].Keys = SubSeq(@, 1, mid),
                      !.nodes[n].Values = SubSeq(@, 1, mid)],
            LeafNode(SubSeq(t.nodes[n].Keys, mid + 1, Len(t.nodes[n].Keys)),
                     SubSeq(t.nodes[n].Values, mid + 1, Len(t.nodes[n].Values)), 0))
splitLeaf(t, n) == splitLeafAt(t, n, Len(t.nodes[n].Keys) \div 2)
\* sep := right.Keys[0], right being the node allocated last
sepOf(s) == s.nodes[LastId(s)].Keys[1]
\* splitLeafReturnRight: right.Next = n.Next; n.Next = right
splitLeafReturnRight(t, n) ==
    [splitLeaf(t, n) EXCEPT !.nodes[Len(t.nodes) + 1].Next = t.nodes[n].Next,
                            !.nodes[n].Next = Len(t.nodes) + 1]

\* what insertRecursive returns, with the tree as it left it
NotGrown(s) == [t |-> s, newChild |-> 0, sep |-> 0, grew |-> FALSE]
Grown(s, sep) == [t |-> s, newChild |-> LastId(s), sep |-> sep, grew |-> TRUE]

\* if len(n.Keys) <= Order-1 { return nil, "", false }; split otherwise
leafSplitIfFull(s, n) ==
    IF Len(s.nodes[n].Keys) <= Order - 1 THEN NotGrown(s)
    ELSE Grown(splitLeafReturnRight(s, n), sepOf(splitLeaf(s, n)))
\* a faulty variant of leafPut, for C19: a key that is there keeps its value
leafPutKeep(t, n, i, key, value) ==
    IF i < Len(t.nodes[n].Keys) /\ t.nodes[n].Keys[i + 1] = key
    THEN NotGrown(t)
    ELSE leafSplitIfFull([t EXCEPT !.nodes[n].Keys = insertString(@, i, key),
                                   !.nodes[n].Values = insertString(@, i, value)], n)
\* the leaf case of insertRecursive, i = sort.SearchStrings(n.Keys, key)
leafPut(t, n, i, key, value) ==
    IF i < Len(t.nodes[n].Keys) /\ t.nodes[n].Keys[i + 1] = key
    THEN NotGrown([t EXCEPT !.nodes[n].Values[i + 1] = value])
    ELSE leafSplitIfFull([t EXCEPT !.nodes[n].Keys = insertString(@, i, key),
                                   !.nodes[n].Values = insertString(@, i, value)], n)

\* a faulty variant of splitInternalReturnRight, for C22: the key that moves up
\* stays in the new right node
splitInternalKeepMid(s, n, mid) ==
    Grown(NewNode([s EXCEPT !.nodes[n].Keys = SubSeq(@, 1, mid),
                            !.nodes[n].Children = SubSeq(@, 1, mid + 1)],
                  InnerNode(SubSeq(s.nodes[n].Keys, mid + 1, Len(s.nodes[n].Keys)),
                            SubSeq(s.nodes[n].Children, mid + 2, Len(s.nodes[n].Children)))),
          s.nodes[n].Keys[mid + 1])
\* splitInternalReturnRight: Keys[mid] moves up, the new right node takes
\* Keys[mid+1:] and Children[mid+1:]
splitInternalReturnRight(s, n, mid) ==
    Grown(NewNode([s EXCEPT !.nodes[n].Keys = SubSeq(@, 1, mid),
                            !.nodes[n].Children = SubSeq(@, 1, mid + 1)],
                  InnerNode(SubSeq(s.nodes[n].Keys, mid + 2, Len(s.nodes[n].Keys)),
                            SubSeq(s.nodes[n].Children, mid + 2, Len(s.nodes[n].Children)))),
          s.nodes[n].Keys[mid + 1])
innerSplitIfFull(s, n) ==
    IF Len(s.nodes[n].Keys) <= Order - 1 THEN NotGrown(s)
    ELSE splitInternalReturnRight(s, n, Len(s.nodes[n].Keys) \div 2)
\* the internal case of insertRecursive after the descent into Children[idx]
\* returned r
innerAbsorb(r, n, idx) ==
    IF ~r.grew THEN NotGrown(r.t)
    ELSE innerSplitIfFull([r.t EXCEPT !.nodes[n].Keys = insertString(@, idx, r.sep),
                                      !.nodes[n].Children = insertNode(@, idx + 1, r.newChild)],
                          n)

RECURSIVE insertRecursive(_, _, _, _)
insertRecursive(t, n, key, value) ==
    IF t.nodes[n].IsLeaf
    THEN leafPut(t, n, SearchStrings(t.nodes[n].Keys, key), key, value)
    ELSE innerAbsorb(insertRecursive(t, t.nodes[n].Children[upperBound(t.nodes[n].Keys, key) + 1],
                                     key, value),
                     n, upperBound(t.nodes[n].Keys, key))

\* if t.Root == nil { t.Root = &Node{IsLeaf: true} }
ensureRoot(t) ==
    IF t.Root = 0
    THEN [NewNode(t, LeafNode(<<>>, <<>>, 0)) EXCEPT !.Root = Len(t.nodes) + 1]
    ELSE t
\* t.Root = &Node{Keys: {sep}, Children: {left, right}}
newRoot(s, sep, left, right) ==
    [NewNode(s, InnerNode(<<sep>>, <<left, right>>)) EXCEPT !.Root = Len(s.nodes) + 1]
\* the split of a full leaf root before the insertion
preSplit(t) ==
    IF Len(t.nodes[t.Root].Keys) >= Order - 1 /\ t.nodes[t.Root].IsLeaf
    THEN newRoot(splitLeaf(t, t.Root), sepOf(splitLeaf(t, t.Root)), t.Root, Len(t.nodes) + 1)
    ELSE t
\* if grew { t.Root = &Node{Keys: {sep}, Children: {t.Root, newChild}} }
rootGrow(r) == IF r.grew THEN newRoot(r.t, r.sep, r.t.Root, r.newChild) ELSE r.t
insertAtRoot(t, key, value) == rootGrow(insertRecursive(t, t.Root, key, value))
Insert(t, key, value) == insertAtRoot(preSplit(ensureRoot(t)), key, value)

\* ---------------------------------------------------------------- gob image of a tree
\* What gob writes for a node: its fields by value, the nodes of Children and the
\* node of Next in full at every place they are pointed to from (gob follows
\* pointers and keeps no identity); Next is <<>> for nil
RECURSIVE gobNode(_, _)
RECURSIVE gobNodes(_, _, _)
gobNode(t, n) ==
    [IsLeaf |-> t.nodes[n].IsLeaf, Keys |-> t.nodes[n].Keys,
     Children |-> gobNodes(t, t.nodes[n].Children, 1),
     Values |-> t.nodes[n].Values,
     Next |-> IF t.nodes[n].Next = 0 THEN <<>> ELSE <<gobNode(t, t.nodes[n].Next)>>]
gobNodes(t, children, i) ==
    IF i > Len(children) THEN <<>>
    ELSE <<gobNode(t, children[i])>> \o gobNodes(t, children, i + 1)

\* The stream of enc.Encode(tree), cut into pieces; a blob is a sequence of
\* pieces and a page holds capPerPage of them. The first piece is the messages
\* that define the types, the same for every tree. The value follows, a node at
\* a time: a piece with the node's IsLeaf and the lengths of its Keys, Children
\* and Next, a piece for each key (with its value in a leaf), then the nodes of
\* Children and the node of Next in the same way.
Piece(kind, isLeaf, keys, children, next, key, value) ==
    [kind |-> kind, IsLeaf |-> isLeaf, keys |-> keys, children |-> children,
     next |-> next, key |-> key, value |-> value]
gobTypes == Piece("types", FALSE, 0, 0, 0, 0, "")
gobHead(v) == Piece("node", v.IsLeaf, Len(v.Keys), Len(v.Children), Len(v.Next), 0, "")
gobPairs(v) ==
    [i \in 1..Len(v.Keys) |->
        Piece("pair", v.IsLeaf, 0, 0, 0, v.Keys[i], IF v.IsLeaf THEN v.Values[i] ELSE "")]
RECURSIVE gobFlat(_)
RECURSIVE gobFlatAll(_, _)
gobFlat(v) ==
    <<gobHead(v)>> \o gobPairs(v) \o gobFlatAll(v.Children, 1) \o gobFlatAll(v.Next, 1)
gobFlatAll(vals, i) ==
    IF i > Len(vals) THEN <<>> ELSE gobFlat(vals[i]) \o gobFlatAll(vals, i + 1)
gobEncode(t) ==
    <<gobTypes>> \o (IF t.Root = 0 THEN <<>> ELSE gobFlat(gobNode(t, t.Root)))

\* dec.Decode(&tree): every node of the stream becomes a new object. A run of the
\* decoder: ok, the place in the blob it is at (pos), the objects made so far
\* (nodes) and the addresses of the nodes it was asked for (ids)
gobFail == [ok |-> FALSE, pos |-> 0, nodes |-> <<>>, ids |-> <<>>]
\* the n pieces after pos are there and are pairs
gobPairsAt(blob, pos, n) ==
    /\ pos + n <= Len(blob)
    /\ \A i \in 1..n : blob[pos + i].kind = "pair"
\* the object of the node whose head is at pos, its children and its Next made before
gobObject(blob, pos, children, next) ==
    [IsLeaf |-> blob[pos].IsLeaf,
     Keys |-> [i \in 1..blob[pos].keys |-> blob[pos + i].key],
     Children |-> children,
     Values |-> IF blob[pos].IsLeaf THEN [i \in 1..blob[pos].keys |-> blob[pos + i].value]
                ELSE <<>>,
     Next |-> IF next = <<>> THEN 0 ELSE next[1]]
RECURSIVE gobReadNode(_, _, _)
RECURSIVE gobReadNodes(_, _, _, _, _)
\* bn = the run after the node's Next was read
gobPut(bn, children, blob, pos) ==
    IF ~bn.ok THEN gobFail
    ELSE [ok |-> TRUE, pos |-> bn.pos,
          nodes |-> Append(bn.nodes, gobObject(blob, pos, children, bn.ids)),
          ids |-> <<Len(bn.nodes) + 1>>]
\* bc = the run after the node's Children were read
gobReadNext(bc, blob, pos) ==
    IF ~bc.ok THEN gobFail
    ELSE gobPut(gobReadNodes(blob, bc.pos, bc.nodes, blob[pos].next, <<>>), bc.ids, blob, pos)
gobReadNode(blob, pos, nodes) ==
    IF pos > Len(blob) THEN gobFail
    ELSE IF blob[pos].kind # "node" THEN gobFail
    ELSE IF ~gobPairsAt(blob, pos, blob[pos].keys) THEN gobFail
    ELSE gobReadNext(gobReadNodes(blob, pos + blob[pos].keys + 1, nodes,
                                  blob[pos].children, <<>>),
                     blob, pos)
\* b = the run after one of the count nodes was read
gobReadMore(b, blob, count, ids) ==
    IF ~b.ok THEN gobFail
    ELSE gobReadNodes(blob, b.pos, b.nodes, count - 1, ids \o b.ids)
gobReadNodes(blob, pos, nodes, count, ids) ==
    IF count = 0 THEN [ok |-> TRUE, pos |-> pos, nodes |-> nodes, ids |-> ids]
    ELSE gobReadMore(gobReadNode(blob, pos, nodes), blob, count, ids)
gobTree(b) ==
    IF b.ok THEN [ok |-> TRUE, t |-> [Root |-> b.ids[1], nodes |-> b.nodes]]
    ELSE [ok |-> FALSE, t |-> New]
\* a blob that does not start with the type definitions, or whose value breaks
\* off, is an error; what follows the value is not read
gobDecode(blob) ==
    IF Len(blob) = 0 THEN [ok |-> FALSE, t |-> New]
    ELSE IF blob[1] # gobTypes THEN [ok |-> FALSE, t |-> New]
    ELSE IF Len(blob) = 1 THEN [ok |-> TRUE, t |-> [Root |-> 0, nodes |-> <<>>]]
    ELSE gobTree(gobReadNode(blob, 2, <<>>))

\* ---------------------------------------------------------------- catalog
\* UpdateMeta(mut): st is the run state after mut(&p.meta)
UpdateMeta(st) == flushMeta(st)

\* a faulty variant of nextID, for C15: the id is one more than the number of tables
nextIDByCount(m) == Cardinality(DOMAIN m.Tables) + 1
\* meta.NextTableID++
nextID(m) == m.NextTableID + 1
\* a faulty variant of createEntry, for C14: the table gets the id before the increment
createEntryOld(st, name) ==
    [st EXCEPT !.meta.NextTableID = nextID(st.meta),
               !.meta.Tables = MapPut(@, name, st.meta.NextTableID)]
\* meta.NextTableID++; meta.Tables[name] = meta.NextTableID
createEntry(st, name) ==
    [st EXCEPT !.meta.NextTableID = nextID(st.meta),
               !.meta.Tables = MapPut(@, name, nextID(st.meta))]
CreateTable(st, name) ==
    IF ~Running(st) THEN st
    ELSE IF name \in DOMAIN st.meta.Tables THEN Halt(st, "exists")
    ELSE UpdateMeta(createEntry(st, name))

\* what GetTableID(name) returns
NoTable == [id |-> 0, ok |-> FALSE]
GetTableID(m, name) ==
    IF name \in DOMAIN m.Tables THEN [id |-> m.Tables[name], ok |-> TRUE] ELSE NoTable

\* delete(meta.Tables, name), s1 = the state after DeleteTableBlob
dropEntry(s1, name) ==
    IF Running(s1) THEN UpdateMeta([s1 EXCEPT !.meta.Tables = MapDel(@, name)]) ELSE s1
DeleteTable(st, name) ==
    IF ~Running(st) THEN st
    ELSE IF name \notin DOMAIN st.meta.Tables THEN Halt(st, "notfound")
    ELSE dropEntry(DeleteTableBlob(st, st.meta.Tables[name]), name)

\* a faulty variant of renameEntry, for C16: the old name is left in place
renameEntryKeep(st, oldName, newName) ==
    [st EXCEPT !.meta.Tables = MapPut(@, newName, st.meta.Tables[oldName])]
\* delete(meta.Tables, oldName); meta.Tables[newName] = id
renameEntry(st, oldName, newName) ==
    [st EXCEPT !.meta.Tables = MapPut(MapDel(@, oldName), newName, st.meta.Tables[oldName])]
RenameTable(st, oldName, newName) ==
    IF ~Running(st) THEN st
    ELSE IF newName \in DOMAIN st.meta.Tables THEN Halt(st, "exists")
    ELSE IF oldName \notin DOMAIN st.meta.Tables THEN Halt(st, "notfound")
    ELSE UpdateMeta(renameEntry(st, oldName, newName))

\* StoreTree(tableID, tree), tree not nil
StoreTree(st, tableID, t) == StoreTableBlob(st, tableID, gobEncode(t))
\* LoadTree(tableID), r = the run of LoadTableBlob(tableID): an absent or empty
\* blob is a new tree
treeOfBlob(res) ==
    IF ~res.ok \/ Len(res.blob) = 0 THEN [ok |-> TRUE, t |-> New] ELSE gobDecode(res.blob)
LoadTree(st, tableID) == treeOfBlob(LoadTableBlob(st, tableID).res)

\* ---------------------------------------------------------------- state
VARIABLES
    pages,    \* data file, pages 1..N-1: [next, n, data]
    dmeta,    \* data file, page 0: <<Meta>> (<<>> = file shorter than one page)
    wal,      \* WAL file: bytes
    alive,    \* a process has the database open
    hung,     \* the running call never returns
    meta,     \* Pager.meta
    cache,    \* Pager.cache
    order,    \* Pager.order
    walOff,   \* file offset of the Pager.wal handle
    ev,       \* file operations of the last StoreTableBlob / DeleteTableBlob / Open, in order
    call,     \* the last StoreTableBlob / DeleteTableBlob call and the loads before it
    session,  \* processes that have opened the database so far
    ncalls,   \* StoreTableBlob / DeleteTableBlob calls made so far
    opens,    \* Opens completed since the last StoreTableBlob / DeleteTableBlob call
    snap,     \* meta and loads at the end of the first of these Opens
    held,     \* the value a goroutine got from Meta() and still holds
    tree,     \* a BPTree in memory
    treeOp,   \* the last Insert / Delete on tree
    ref,      \* a map key -> value that is given every Insert / Delete given to tree
    catOp,    \* the last call of the catalog, if it came after the last call of the pager
    used,     \* the pages read or written through the cache, oldest use first
    writeMu,  \* txn.Manager.writeMu is locked
    txs,      \* the txn.Tx objects made by Begin
    conns,    \* the connections of the TCP server: the locals of handleConn
    opts,     \* server.Options of the process
    srvOp,    \* the last command a connection sent, and the answer
    mu,       \* Pager.mu: the public call that holds it, if any
    got,      \* what the last LoadTableBlob of a reader goroutine returned
    work      \* the write requests the handlers of a server are working on

vars == <<pages, dmeta, wal, alive, hung, meta, cache, order, walOff, ev, call,
          session, ncalls, opens, snap, held, tree, treeOp, ref, catOp,
          used, writeMu, txs, conns, opts, srvOp, mu, got, work>>
\* the transaction manager, the server and the lock of the pager
others == <<used, writeMu, txs, conns, opts, srvOp, mu, got, work>>

\* the run state of a call on the current state; rfuel is the read fault of the run
St(rfuel) ==
    [pages |-> pages, dmeta |-> dmeta, wal |-> wal,
     meta |-> meta, cache |-> cache, order |-> order, walOff |-> walOff,
     maxCache |-> maxCache,
     buf |-> ZeroPage, rpid |-> 0, plist |-> <<>>, res |-> Absent,
     rfuel |-> rfuel, reads |-> 0, halt |-> "run", ev |-> <<>>,
     stage |-> "start", trace |-> <<>>]

NoFault == St(-1)

\* a run state of a process that starts: nothing in memory
Boot(st) == [st EXCEPT !.meta = EmptyMeta, !.cache = EmptyMap, !.order = <<>>, !.walOff = 0]

Hang == [blob |-> <<>>, ok |-> FALSE, hang |-> TRUE]
\* what LoadTableBlob(tableID) returns in run state st
ResultOf(r) == IF r.halt = "hang" THEN Hang ELSE r.res
LoadOf(st, tableID) == ResultOf(LoadTableBlob([st EXCEPT !.rfuel = -1, !.halt = "run"], tableID))
LoadAllOf(st) == [i \in TableIds |-> LoadOf(st, i)]
\* ... and in the current state
LoadView(tableID) == LoadOf(NoFault, tableID)
LoadAll == LoadAllOf(NoFault)

NoCall == [op |-> "none", id |-> 0, blob |-> <<>>, halt |-> "run", stage |-> "start",
           pre |-> [i \in TableIds |-> Absent]]
NoSnap == [ok |-> FALSE, meta |-> EmptyMeta, loads |-> [i \in TableIds |-> Absent]]
\* no goroutine holds a value of Meta()
NoHeld == [ok |-> FALSE, Tables |-> EmptyMap, NextTableID |-> 0,
           TableHead |-> EmptyMap, FreeList |-> 0]
NoTreeOp == [op |-> "none", key |-> 0, value |-> "", before |-> NotFound, ok |-> FALSE]
NoCatOp == [op |-> "none", name |-> "", to |-> "", halt |-> "run", before |-> EmptyMeta]
\* server.Options{}: no token required, writes allowed
NoOptions == [RequireToken |-> "", ReadOnly |-> FALSE]
\* the connections a server may have
Conns == {1, 2}
\* a connection not accepted yet, or closed
NoConn == [open |-> FALSE, authed |-> FALSE, inTx |-> FALSE, writeTx |-> FALSE,
           curTx |-> 0]
NoSrvOp == [conn |-> 0, cmd |-> "none", args |-> <<>>, reply |-> "", tables |-> EmptyMap,
            loads |-> [i \in TableIds |-> Absent], conn0 |-> NoConn, conn1 |-> NoConn]
\* a handler between two requests, and a server without requests: hs are the
\* handlers (pc = where the handler is, cmd = its request, tx = its Tx, t = the
\* tree it loaded), log the requests done, overlap = a request came in while
\* another one was being worked on
Handlers == {1, 2}
NoReq == [pc |-> "idle", cmd |-> [Name |-> "none", Args |-> <<>>], tx |-> 0,
          t |-> [Root |-> 0, nodes |-> <<>>]]
NoWork == [hs |-> [h \in Handlers |-> NoReq], log |-> <<>>, overlap |-> FALSE]
\* Pager.mu unlocked
NoLock == [busy |-> FALSE, op |-> "none", id |-> 0, blob |-> <<>>, step |-> 0]
NoGot == [ok |-> FALSE, id |-> 0, res |-> Absent, pre |-> Absent, post |-> Absent]

\* the state the first Open of a new database leaves
InitRun ==
    Open([pages |-> <<>>, dmeta |-> <<>>, wal |-> <<>>,
          meta |-> EmptyMeta, cache |-> EmptyMap, order |-> <<>>, walOff |-> 0,
          maxCache |-> maxCache,
          buf |-> ZeroPage, rpid |-> 0, plist |-> <<>>, res |-> Absent,
          rfuel |-> -1, reads |-> 0, halt |-> "run", ev |-> <<>>,
          stage |-> "start", trace |-> <<>>])

InitFrom(r) ==
    /\ pages = r.pages /\ dmeta = r.dmeta /\ wal = r.wal
    /\ alive = TRUE /\ hung = FALSE
    /\ meta = r.meta /\ cache = r.cache /\ order = r.order
    /\ walOff = r.walOff
    /\ ev = r.ev
    /\ call = NoCall
    /\ session = 1
    /\ ncalls = 0
    /\ opens = 1
    /\ snap = NoSnap
    /\ held = NoHeld
    /\ treeOp = NoTreeOp
    /\ catOp = NoCatOp
    /\ used = <<>>
    /\ writeMu = FALSE /\ txs = <<>>
    /\ conns = [c \in Conns |-> NoConn] /\ srvOp = NoSrvOp
    /\ mu = NoLock /\ got = NoGot
    /\ work = NoWork

Init == InitFrom(InitRun) /\ tree = New /\ ref = EmptyMap /\ opts = NoOptions

\* the process is gone: nothing of its memory is left
Dead ==
    /\ alive' = FALSE /\ hung' = FALSE
    /\ meta' = EmptyMeta /\ cache' = EmptyMap /\ order' = <<>> /\ walOff' = 0
    /\ held' = NoHeld
    /\ UNCHANGED <<tree, treeOp, ref>>

\* a call returned (or never returns): the files and the memory are as it left them
Returned(r) ==
    /\ Len(r.pages) + 1 <= MaxPages
    /\ pages' = r.pages /\ dmeta' = r.dmeta /\ wal' = r.wal
    /\ meta' = r.meta /\ cache' = r.cache /\ order' = r.order /\ walOff' = r.walOff
    /\ alive' = TRUE /\ hung' = (r.halt = "hang")
    /\ ev' = r.ev
    /\ UNCHANGED <<held, tree, treeOp, ref>>

\* the process died in a call: the files are as they were at that point
Died(f) ==
    /\ Len(f.pages) + 1 <= MaxPages
    /\ pages' = f.pages /\ dmeta' = f.dmeta /\ wal' = f.wal
    /\ Dead
    /\ ev' = <<>>

Ready == alive /\ ~hung /\ ncalls < MaxCalls
\* a process ends only while another one may still open the database: the last
\* of the MaxSessions processes is left running
MayEnd == session < MaxSessions

Called(op, tableID, blob, halt, stage) ==
    /\ call' = [op |-> op, id |-> tableID, blob |-> blob, halt |-> halt, stage |-> stage,
                pre |-> LoadAll]
    /\ opens' = 0
    /\ snap' = NoSnap
    /\ session' = session
    /\ catOp' = NoCatOp

\* ---------------------------------------------------------------- actions
Range(seq) == {seq[k] : k \in DOMAIN seq}

\* the call returned (or never returns)
CallReturned(r, op, tableID, blob) ==
    /\ Returned(r) /\ Called(op, tableID, blob, r.halt, r.stage)
    /\ ncalls' = ncalls + 1
    /\ UNCHANGED others

\* the process died in the call, leaving the files f
CallDied(f, op, tableID, blob) ==
    /\ Died(f) /\ Called(op, tableID, blob, "crash", f.stage)
    /\ ncalls' = ncalls + 1
    /\ UNCHANGED others

\* StoreTableBlob(tableID, blob) returns
StoreBlob(tableID, blob) ==
    /\ Ready
    /\ CallReturned(StoreTableBlob(NoFault, tableID, blob), "store", tableID, blob)

\* StoreTableBlob with SHARKDB_WAL_FAIL set to one of its checkpoints
StoreBlobExit(tableID, blob, point) ==
    /\ Ready /\ MayEnd
    /\ \E f \in Range(StoreTableBlob(NoFault, tableID, blob).trace) :
          f.at = point /\ CallDied(f, "store", tableID, blob)

\* the process dies in StoreTableBlob before one of its file writes
StoreBlobCrash(tableID, blob) ==
    /\ Ready /\ MayEnd
    /\ \E f \in Range(StoreTableBlob(NoFault, tableID, blob).trace) :
          f.at = "write" /\ CallDied(f, "store", tableID, blob)

DeleteBlob(tableID) ==
    /\ Ready
    /\ CallReturned(DeleteTableBlob(NoFault, tableID), "delete", tableID, <<>>)

DeleteBlobExit(tableID) ==
    /\ Ready /\ MayEnd
    /\ \E f \in Range(DeleteTableBlob(NoFault, tableID).trace) :
          f.at = "after_wal_delete" /\ CallDied(f, "delete", tableID, <<>>)

DeleteBlobCrash(tableID) ==
    /\ Ready /\ MayEnd
    /\ \E f \in Range(DeleteTableBlob(NoFault, tableID).trace) :
          f.at = "write" /\ CallDied(f, "delete", tableID, <<>>)

\* a LoadTableBlob run: of the state, only the cache changes
Loaded(r, tableID) ==
    /\ cache' = r.cache /\ order' = r.order
    /\ hung' = (r.halt = "hang")
    /\ UNCHANGED <<pages, dmeta, wal, alive, meta, walOff, ev, call, session, ncalls, opens, snap>>
    /\ UNCHANGED <<held, tree, treeOp, ref, catOp>>
    /\ UNCHANGED others

LoadBlob(tableID) ==
    /\ alive /\ ~hung
    /\ Loaded(LoadTableBlob(NoFault, tableID), tableID)

\* LoadTableBlob in which one of its reads of the data file fails
LoadBlobReadError(tableID) ==
    /\ alive /\ ~hung
    /\ \E k \in 0..(LoadTableBlob(NoFault, tableID).reads - 1) :
          Loaded(LoadTableBlob(St(k), tableID), tableID)

\* the process ends between two calls (or is killed in a call that never returns)
Exit ==
    /\ alive /\ MayEnd
    /\ Dead
    /\ ev' = <<>>
    /\ UNCHANGED <<pages, dmeta, wal, call, session, ncalls, opens, snap, catOp>>
    /\ UNCHANGED others

\* Open returned (an Open that returns an error leaves no pager)
Opened(r) ==
    /\ IF r.halt = "err"
       THEN Died(Files(r, "open"))
       ELSE Returned(r)
    /\ opens' = IF opens = 0 THEN 1 ELSE 2
    /\ snap' = IF opens = 0 /\ r.halt = "run"
               THEN [ok |-> TRUE, meta |-> r.meta, loads |-> LoadAllOf(r)]
               ELSE snap

\* a new process opens the database: one of the MaxSessions processes, also
\* when its Open fails
OpenDb ==
    /\ ~alive /\ session <= MaxSessions - 1
    /\ Opened(Open(Boot(NoFault)))
    /\ session' = session + 1
    /\ UNCHANGED <<call, ncalls, catOp>>
    /\ UNCHANGED others

Next ==
    \/ \E i \in TableIds, b \in Blobs : StoreBlob(i, b)
    \/ \E i \in TableIds, b \in Blobs, pt \in {"after_wal_store", "before_meta_flush"} :
          StoreBlobExit(i, b, pt)
    \/ \E i \in TableIds, b \in Blobs : StoreBlobCrash(i, b)
    \/ \E i \in TableIds : DeleteBlob(i)
    \/ \E i \in TableIds : DeleteBlobExit(i)
    \/ \E i \in TableIds : DeleteBlobCrash(i)
    \/ \E i \in TableIds : LoadBlob(i)
    \/ \E i \in TableIds : LoadBlobReadError(i)
    \/ Exit
    \/ OpenDb

Spec == Init /\ [][Next]_vars

\* ---------------------------------------------------------------- B+ tree in memory
\* the tree after Insert(1, "x"), ..., Insert(n, "x") on a new tree
RECURSIVE Ascending(_)
Ascending(n) == IF n = 0 THEN New ELSE Insert(Ascending(n - 1), n, "x")

\* the tree after Insert(1, "x"), Insert(3, "x"), ..., Insert(2n-1, "x") on a new tree
RECURSIVE Alternate(_)
Alternate(n) == IF n = 0 THEN New ELSE Insert(Alternate(n - 1), 2 * n - 1, "x")

\* a tree of 0..MaxKey keys, or of the odd keys up to MaxKey, and nothing done
\* to it yet
InitTree ==
    /\ InitFrom(InitRun) /\ opts = NoOptions
    /\ \/ \E n \in 0..MaxKey :
             tree = Ascending(n) /\ ref = [k \in 1..n |-> "x"]
       \/ \E n \in 1..((MaxKey + 1) \div 2) :
             tree = Alternate(n) /\ ref = [k \in {2 * i - 1 : i \in 1..n} |-> "x"]

TreeInsert(key, value) ==
    /\ ncalls < MaxTreeOps
    /\ tree' = Insert(tree, key, value)
    /\ ref' = MapPut(ref, key, value)
    /\ treeOp' = [op |-> "Insert", key |-> key, value |-> value,
                  before |-> Get(tree, key), ok |-> TRUE]
    /\ ncalls' = ncalls + 1
    /\ UNCHANGED <<pages, dmeta, wal, alive, hung, meta, cache, order, walOff, ev, call,
                   session, opens, snap, held, catOp>>
    /\ UNCHANGED others

TreeDelete(key) ==
    /\ ncalls < MaxTreeOps
    /\ tree' = Delete(tree, key).t
    /\ ref' = MapDel(ref, key)
    /\ treeOp' = [op |-> "Delete", key |-> key, value |-> "",
                  before |-> Get(tree, key), ok |-> Delete(tree, key).ok]
    /\ ncalls' = ncalls + 1
    /\ UNCHANGED <<pages, dmeta, wal, alive, hung, meta, cache, order, walOff, ev, call,
                   session, opens, snap, held, catOp>>
    /\ UNCHANGED others

NextTree ==
    \/ \E k \in Keys, v \in Vals : TreeInsert(k, v)
    \/ \E k \in Keys : TreeDelete(k)

SpecTree == InitTree /\ [][NextTree]_vars

\* ---------------------------------------------------------------- catalog calls
\* the trees stored: an empty one and one of one key
CatTrees == {New, Insert(New, 1, "x")}

\* the catalog may be called
CatReady == alive /\ ~hung /\ ncalls < MaxCatCalls

\* a call of the catalog
CatCalled(op, name, to, halt, stage) ==
    /\ call' = [op |-> op, id |-> 0, blob |-> <<>>, halt |-> halt, stage |-> stage,
                pre |-> LoadAll]
    /\ opens' = 0
    /\ snap' = NoSnap
    /\ session' = session
    /\ catOp' = [op |-> op, name |-> name, to |-> to, halt |-> halt, before |-> meta]
    /\ ncalls' = ncalls + 1
    /\ UNCHANGED others

CreateTableCall(name) ==
    /\ CatReady
    /\ Returned(CreateTable(NoFault, name))
    /\ CatCalled("create", name, "", CreateTable(NoFault, name).halt, "start")

RenameTableCall(oldName, newName) ==
    /\ CatReady
    /\ Returned(RenameTable(NoFault, oldName, newName))
    /\ CatCalled("rename", oldName, newName, RenameTable(NoFault, oldName, newName).halt, "start")

DeleteTableCall(name) ==
    /\ CatReady
    /\ Returned(DeleteTable(NoFault, name))
    /\ CatCalled("drop", name, "", DeleteTable(NoFault, name).halt,
                 DeleteTable(NoFault, name).stage)

\* DeleteTable with SHARKDB_WAL_FAIL = after_wal_delete
DeleteTableExit(name) ==
    /\ CatReady /\ MayEnd
    /\ \E f \in Range(DeleteTable(NoFault, name).trace) :
          /\ f.at = "after_wal_delete"
          /\ Died(f)
          /\ CatCalled("drop", name, "", "crash", f.stage)

\* the process dies in DeleteTable before one of its file writes
DeleteTableCrash(name) ==
    /\ CatReady /\ MayEnd
    /\ \E f \in Range(DeleteTable(NoFault, name).trace) :
          /\ f.at = "write"
          /\ Died(f)
          /\ CatCalled("drop", name, "", "crash", f.stage)

\* the engine stores the tree of a table it found by name: GetTableID, StoreTree
StoreTreeCall(name, t) ==
    /\ CatReady /\ GetTableID(meta, name).ok
    /\ CallReturned(StoreTree(NoFault, meta.Tables[name], t), "store",
                    meta.Tables[name], gobEncode(t))

\* ... with SHARKDB_WAL_FAIL set to one of the checkpoints of StoreTableBlob
StoreTreeExit(name, t, point) ==
    /\ CatReady /\ MayEnd /\ GetTableID(meta, name).ok
    /\ \E f \in Range(StoreTree(NoFault, meta.Tables[name], t).trace) :
          f.at = point /\ CallDied(f, "store", meta.Tables[name], gobEncode(t))

\* the process dies in StoreTree before one of its file writes
StoreTreeCrash(name, t) ==
    /\ CatReady /\ MayEnd /\ GetTableID(meta, name).ok
    /\ \E f \in Range(StoreTree(NoFault, meta.Tables[name], t).trace) :
          f.at = "write" /\ CallDied(f, "store", meta.Tables[name], gobEncode(t))

\* the engine loads the tree of a table it found by name: GetTableID, LoadTree
LoadTreeCall(name) ==
    /\ alive /\ ~hung /\ GetTableID(meta, name).ok
    /\ Loaded(LoadTableBlob(NoFault, meta.Tables[name]), meta.Tables[name])

\* Meta() returns to a goroutine that has not yet read the maps of the value it got
MetaCall ==
    /\ alive /\ ~hung /\ ~held.ok
    /\ held' = [ok |-> TRUE, Tables |-> meta.Tables, NextTableID |-> meta.NextTableID,
                TableHead |-> meta.TableHead, FreeList |-> meta.FreeList]
    /\ UNCHANGED <<pages, dmeta, wal, alive, hung, meta, cache, order, walOff, ev, call,
                   session, ncalls, opens, snap, tree, treeOp, ref, catOp>>
    /\ UNCHANGED others

NextCat ==
    \/ \E name \in Names : CreateTableCall(name)
    \/ \E oldName, newName \in Names : RenameTableCall(oldName, newName)
    \/ \E name \in Names : DeleteTableCall(name)
    \/ \E name \in Names : DeleteTableExit(name)
    \/ \E name \in Names, t \in CatTrees : StoreTreeCall(name, t)
    \/ \E name \in Names, t \in CatTrees, pt \in {"after_wal_store", "before_meta_flush"} :
          StoreTreeExit(name, t, pt)
    \/ \E name \in Names, t \in CatTrees : StoreTreeCrash(name, t)
    \/ \E name \in Names : DeleteTableCrash(name)
    \/ \E name \in Names : LoadTreeCall(name)
    \/ MetaCall
    \/ Exit
    \/ OpenDb

SpecCat == Init /\ [][NextCat]_vars

\* ---------------------------------------------------------------- page ownership
\* the pages met from pid along the next pointers of pg, up to a 0, a page id
\* outside the file or a page met before
RECURSIVE Walk(_, _, _)
Walk(pg, pid, acc) ==
    IF pid = 0 \/ pid > Len(pg) \/ pid \in Range(acc) THEN acc
    ELSE Walk(pg, pg[pid].next, Append(acc, pid))
\* the walk from pid ends at a 0
RECURSIVE EndsAtZero(_, _, _)
EndsAtZero(pg, pid, seen) ==
    IF pid = 0 THEN TRUE
    ELSE IF pid > Len(pg) \/ pid \in seen THEN FALSE
    ELSE EndsAtZero(pg, pg[pid].next, seen \cup {pid})

FreePages(pg, m) == Range(Walk(pg, m.FreeList, <<>>))
ChainPages(pg, m, i) == Range(Walk(pg, MapGet(m.TableHead, i), <<>>))

\* page 0, the free list and the chains of the tables partition the pages of the file
Partition(pg, m) ==
    /\ EndsAtZero(pg, m.FreeList, {})
    /\ \A i \in DOMAIN m.TableHead : EndsAtZero(pg, m.TableHead[i], {})
    /\ \A i \in DOMAIN m.TableHead : FreePages(pg, m) \cap ChainPages(pg, m, i) = {}
    /\ \A i, j \in DOMAIN m.TableHead : i # j => ChainPages(pg, m, i) \cap ChainPages(pg, m, j) = {}
    /\ FreePages(pg, m) \cup UNION {ChainPages(pg, m, i) : i \in DOMAIN m.TableHead} = 1..Len(pg)

\* what LoadTableBlob(call.id) is to return once the last call has taken effect
PostCall == IF call.op = "store" /\ call.blob # <<>> THEN Present(call.blob) ELSE Absent
WalAppended == call.stage \in {"after_wal_store", "before_meta_flush", "after_wal_delete"}
\* a process has opened the database after the last call and is between calls
Reopened == alive /\ ~hung /\ opens >= 1 /\ call.op # "none"

\* ---------------------------------------------------------------- claims
\* C1: durability after the commit point: once StoreTableBlob(i, b), b non-empty,
\* has appended its WAL record, a process that opens the database afterwards
\* loads (b, true) for i.
C1_DurableAfterWalAppend ==
    (Reopened /\ call.op = "store" /\ call.blob # <<>> /\ WalAppended)
        => LoadView(call.id) = Present(call.blob)

\* C2: free-list conservation after recovery: after a crash at before_meta_flush
\* in StoreTableBlob and the next Open, every page 1..N-1 is on the free list or
\* in the chain of exactly one table, never both, none leaked.
C2_PartitionAfterRecovery ==
    (Reopened /\ opens = 1 /\ call.op = "store" /\ call.halt = "crash"
              /\ call.stage = "before_meta_flush")
        => Partition(pages, meta)

\* C3: free-list conservation without crashes: in the process that created the
\* file, after any sequence of StoreTableBlob and DeleteTableBlob calls, page 0,
\* the free list and the chains partition the pages of the data file.
C3_PartitionInFirstProcess ==
    (session = 1 /\ alive /\ ~hung) => Partition(pages, meta)
C3_Witness ==
    /\ session = 1 /\ alive /\ ncalls >= 3
    /\ meta.FreeList # 0
    /\ \E i \in TableIds : Cardinality(ChainPages(pages, meta, i)) = 2

\* C4: crash atomicity: after a crash inside StoreTableBlob(i, b) or
\* DeleteTableBlob(i) and the next Open, table i loads as before the call or as
\* after it, and every other table loads as before the call.
C4_CrashAtomic ==
    (alive /\ opens = 1 /\ call.op # "none" /\ call.halt = "crash")
        => /\ ~hung
           /\ LoadView(call.id) \in {call.pre[call.id], PostCall}
           /\ \A j \in TableIds \ {call.id} : LoadView(j) = call.pre[j]

\* C5: replay idempotence: after a crash, the process of the first Open and the
\* process of a second Open right after it have the same metadata and load the
\* same for every table.
C5_ReplayIdempotent ==
    (alive /\ ~hung /\ opens = 2 /\ snap.ok /\ call.halt = "crash")
        => meta = snap.meta /\ LoadAll = snap.loads

\* C6: store/load round trip in one process: after StoreTableBlob(i, b) returned
\* nil, LoadTableBlob(i) is (b, true) (absent for an empty b or after
\* DeleteTableBlob(i)), and a call for one table changes what no other table loads.
C6_StoreLoadRoundTrip ==
    (alive /\ ~hung /\ opens = 0 /\ call.halt = "run")
        => /\ LoadView(call.id) = PostCall
           /\ \A j \in TableIds \ {call.id} : LoadView(j) = call.pre[j]

Writes == {"page_write", "file_extend", "meta_write"}
Before(es, a, b) == \A x, y \in DOMAIN es : (es[x] = a /\ es[y] = b) => x < y
\* the last call was a StoreTableBlob / DeleteTableBlob that returned nil
Committed == alive /\ ~hung /\ opens = 0 /\ call.halt = "run"

\* C7: the WAL is truncated after every successful commit, and within a call the
\* page writes come before the meta-page flush and that before the WAL truncation.
C7_WalTruncatedOnCommit ==
    Committed => /\ Len(wal) = 0
                 /\ Before(ev, "page_write", "meta_write")
                 /\ Before(ev, "meta_write", "wal_truncate")

\* C8: commit-point ordering: the WAL record is appended and fsynced before the
\* first write to a page of the data file or to the metadata page.
C8_WalSyncedBeforeWrites ==
    Committed => /\ \A w \in Writes : Before(ev, "wal_write", w)
                 /\ \A w \in Writes : Before(ev, "wal_sync", w)

\* C9: LoadTableBlob(i) reports absent if and only if TableHead[i] is missing or zero.
\* A LoadTableBlob run meets no read fault (-1), or its k-th read of the data file fails.
ReadFaults(tableID) == -1 .. (LoadTableBlob(NoFault, tableID).reads - 1)
\* the run r of LoadTableBlob(i) returned, and returned absent iff the head is 0
AbsentIffNoHead(r, i) ==
    r.halt # "hang" => (r.res = Absent <=> MapGet(meta.TableHead, i) = 0)
C9_AbsentIffNoHead ==
    (alive /\ ~hung) =>
        \A i \in TableIds : \A k \in ReadFaults(i) : AbsentIffNoHead(LoadTableBlob(St(k), i), i)

\* C10: LoadTableBlob terminates whatever the data file holds.
C10_LoadTerminates ==
    (alive /\ ~hung) => \A i \in TableIds : LoadView(i) # Hang

\* the longest blob of Blobs: its store allocates every page a shorter one does
LongBlob == <<2, 3>>
\* C11: page 0 is reserved: while a process has the database open, page 0 holds
\* the metadata image, allocPage never returns page id 0, and no StoreTableBlob
\* puts page id 0 into the chain it builds.
C11_PageZeroReserved ==
    (alive /\ ~hung) =>
        /\ Len(dmeta) = 1
        /\ allocPage(NoFault).rpid \in 1..(Len(pages) + 1)
        /\ \A i \in TableIds : 0 \notin Range(StoreTableBlob(NoFault, i, LongBlob).plist)
\* a two-page store returned while pages were left on the free list: its pages
\* were popped from the list, and the next allocPage pops again
C11_Witness ==
    /\ alive /\ ~hung /\ call.op = "store" /\ call.blob = <<2, 3>> /\ call.halt = "run"
    /\ meta.FreeList # 0 /\ allocPage(NoFault).rpid = meta.FreeList
    /\ Len(pages) = 3

\* pages a blob takes: one per capPerPage bytes, the last one may be partly filled
PagesFor(blob) == (Len(blob) + capPerPage - 1) \div capPerPage
\* pages StoreTableBlob(i, .) can take without growing the file: the free list and
\* the chain table i has now
Reusable(i) == FreePages(pages, meta) \cup ChainPages(pages, meta, i)
\* the run r of StoreTableBlob(i, b) returned nil and left the file as long as it was
SameLength(r) == Running(r) /\ Len(r.pages) = Len(pages)
\* C12: page reuse before file growth: a StoreTableBlob(i, b) that needs no more
\* pages than the free list and the previous chain of i hold returns without
\* changing the length of the data file.
C12_ReuseBeforeGrowth ==
    (alive /\ ~hung) =>
        \A i \in TableIds : \A b \in Blobs :
            PagesFor(b) <= Cardinality(Reusable(i)) => SameLength(StoreTableBlob(NoFault, i, b))

\* the key/value pairs below node n, left to right
RECURSIVE PairsBelow(_, _)
RECURSIVE PairsFrom(_, _, _)
PairsBelow(t, n) ==
    IF t.nodes[n].IsLeaf
    THEN [i \in 1..Len(t.nodes[n].Keys) |-> <<t.nodes[n].Keys[i], t.nodes[n].Values[i]>>]
    ELSE PairsFrom(t, t.nodes[n].Children, 1)
PairsFrom(t, children, i) ==
    IF i > Len(children) THEN <<>>
    ELSE PairsBelow(t, children[i]) \o PairsFrom(t, children, i + 1)
Pairs(t) == IF t.Root = 0 THEN <<>> ELSE PairsBelow(t, t.Root)
Found(v) == [value |-> v, ok |-> TRUE]
\* levels of the tree below its root
InnerRoot == ~tree.nodes[tree.Root].IsLeaf

\* t2 is t1 after Insert(k, v2), t1 holding k
UpsertLaw(t1, t2, k, v2) ==
    /\ Get(t2, k) = Found(v2)
    /\ Len(Pairs(t2)) = Len(Pairs(t1))
    /\ \A j \in Keys \ {k} : Get(t2, j) = Get(t1, j)
\* C19: upsert law: after Insert(k, v1); Insert(k, v2), Get(k) is (v2, true), and
\* the second Insert changes neither the number of keys nor the value of another key.
C19_UpsertLaw ==
    \A k \in Keys : \A v1, v2 \in Vals :
        UpsertLaw(Insert(tree, k, v1), Insert(Insert(tree, k, v1), k, v2), k, v2)
\* an Insert gave a key of a tree with inner nodes another value
C19_Witness ==
    /\ treeOp.op = "Insert" /\ treeOp.before.ok /\ treeOp.before.value # treeOp.value
    /\ Get(tree, treeOp.key) = Found(treeOp.value)
    /\ InnerRoot

\* t1 holds k, d is what Delete(k) returned on it
DeleteLaw(t1, d, k) ==
    /\ d.ok
    /\ Get(d.t, k) = NotFound
    /\ ~Delete(d.t, k).ok
    /\ \A j \in Keys \ {k} : Get(d.t, j) = Get(t1, j)
\* C20: delete law: after Insert(k, v), Delete(k) returns true, Get(k) then finds
\* nothing and a second Delete(k) returns false; Delete changes Get for no other key.
C20_DeleteLaw ==
    \A k \in Keys : \A v \in Vals :
        DeleteLaw(Insert(tree, k, v), Delete(Insert(tree, k, v), k), k)
\* a Delete took a key out of a tree with inner nodes
C20_Witness ==
    /\ treeOp.op = "Delete" /\ treeOp.ok /\ treeOp.before.ok
    /\ Get(tree, treeOp.key) = NotFound
    /\ InnerRoot

\* the value of Meta() as the goroutine holding it reads it now: NextTableID and
\* FreeList were copied with the struct, Tables and TableHead are the maps of
\* p.meta themselves (a Go map value is a reference, and the pager never
\* replaces its two maps after Open)
HeldNow ==
    [ok |-> TRUE, Tables |-> meta.Tables, NextTableID |-> held.NextTableID,
     TableHead |-> meta.TableHead, FreeList |-> held.FreeList]
\* C13: Meta() returns a snapshot: what a goroutine reads in the value it got from
\* Meta() is what the metadata was when Meta() returned, whatever UpdateMeta,
\* StoreTableBlob or DeleteTableBlob did since.
C13_MetaIsSnapshot ==
    (alive /\ held.ok) => HeldNow = held

\* the run r left the metadata, in memory and in page 0, and the pages as they are
Untouched(r) ==
    /\ r.meta = meta /\ r.dmeta = dmeta /\ r.pages = pages /\ r.wal = wal
\* the run r changed Tables to tables and NextTableID to next, in memory and in
\* page 0, and nothing else of the metadata or of the pages
OnlyTables(r, tables, next) ==
    /\ Running(r)
    /\ r.meta = [meta EXCEPT !.Tables = tables, !.NextTableID = next]
    /\ r.dmeta = <<r.meta>>
    /\ r.pages = pages /\ r.wal = wal
\* LoadTree(tableID) after the run r gives a tree without keys
LoadsEmpty(r, tableID) ==
    /\ LoadTableBlob(r, tableID).res = Absent
    /\ LoadTree(r, tableID).ok /\ Pairs(LoadTree(r, tableID).t) = <<>>
\* r is the run of CreateTable(name)
CreateLaw(r, name) ==
    IF name \in DOMAIN meta.Tables
    THEN r.halt = "exists" /\ Untouched(r)
    ELSE /\ OnlyTables(r, MapPut(meta.Tables, name, meta.NextTableID + 1), meta.NextTableID + 1)
         /\ LoadsEmpty(r, meta.NextTableID + 1)
         /\ (dmeta = <<EmptyMeta>> => r.meta.Tables[name] = 1)
\* C14: CreateTable(name) fails with already-exists and changes nothing when the
\* name is known; otherwise NextTableID grows by one, the name gets the new
\* NextTableID, nothing else changes and the new id has no blob (LoadTree gives an
\* empty tree); the first table of a new database gets id 1.
C14_CreateTable ==
    (alive /\ ~hung) => \A name \in Names : CreateLaw(CreateTable(NoFault, name), name)
\* CreateTable returned nil in a process that opened a database which had lost a
\* table before, and returned already-exists
C14_Witness ==
    /\ alive /\ ~hung /\ session > 1 /\ opens = 0
    /\ catOp.op = "create" /\ catOp.halt = "run"
    /\ meta.Tables = MapPut(catOp.before.Tables, catOp.name, 2)
    /\ meta.NextTableID = 2 /\ Cardinality(DOMAIN meta.Tables) = 1

\* the ids of the tables
IdsOf(m) == {m.Tables[name] : name \in DOMAIN m.Tables}
\* no two names have the same id, and no id is above NextTableID
IdsSound(m) ==
    /\ \A n1, n2 \in DOMAIN m.Tables : m.Tables[n1] = m.Tables[n2] => n1 = n2
    /\ \A name \in DOMAIN m.Tables : m.Tables[name] \in 1..m.NextTableID
\* NextTableID of page 0 does not go down, and a name that is new or has a new id
\* has an id above the NextTableID of before, that is above every id given before
IdsGrow ==
    /\ dmeta'[1].NextTableID >= dmeta[1].NextTableID
    /\ \A name \in DOMAIN dmeta'[1].Tables :
          \/ dmeta'[1].Tables[name] \in IdsOf(dmeta[1])
          \/ dmeta'[1].Tables[name] > dmeta[1].NextTableID
\* C15: table ids are unique and never reused: NextTableID never decreases over
\* create, rename, delete and reopen, every CreateTable assigns an id above all
\* ids assigned before, and two names never map to the same id.
C15_IdsNeverReused ==
    /\ [](IdsSound(dmeta[1]) /\ (alive => meta.NextTableID = dmeta[1].NextTableID
                                          /\ meta.Tables = dmeta[1].Tables))
    /\ [][IdsGrow]_vars
\* a table got id 3 after the table of id 2 was dropped, and the database was
\* reopened since
C15_Witness ==
    /\ alive /\ ~hung /\ session > 1
    /\ catOp.op = "create" /\ catOp.halt = "run"
    /\ catOp.before.NextTableID = 2 /\ IdsOf(catOp.before) = {1}
    /\ IdsOf(meta) = {1, 3}

\* r is the run of RenameTable(oldName, newName)
RenameLaw(r, oldName, newName) ==
    IF newName \in DOMAIN meta.Tables THEN r.halt = "exists" /\ Untouched(r)
    ELSE IF oldName \notin DOMAIN meta.Tables THEN r.halt = "notfound" /\ Untouched(r)
    ELSE /\ OnlyTables(r, MapPut(MapDel(meta.Tables, oldName), newName, meta.Tables[oldName]),
                       meta.NextTableID)
         /\ ~GetTableID(r.meta, oldName).ok
         /\ GetTableID(r.meta, newName) = GetTableID(meta, oldName)
         /\ LoadTableBlob(r, meta.Tables[oldName]).halt = LoadTableBlob(NoFault, meta.Tables[oldName]).halt
         /\ LoadTree(r, meta.Tables[oldName]) = LoadTree(NoFault, meta.Tables[oldName])
\* C16: RenameTable(old, new) fails with already-exists when new is taken (also
\* when old is unknown or equal to new), with not-found when old is unknown, and
\* changes nothing then; otherwise old is gone, new has the id old had, and
\* NextTableID, TableHead, the pages and the tree of that id are as before.
C16_RenameTable ==
    (alive /\ ~hung) =>
        \A oldName, newName \in Names :
            RenameLaw(RenameTable(NoFault, oldName, newName), oldName, newName)
\* a table that holds a tree of one key was renamed
C16_Witness ==
    /\ alive /\ ~hung /\ catOp.op = "rename" /\ catOp.halt = "run"
    /\ ~GetTableID(meta, catOp.name).ok
    /\ GetTableID(meta, catOp.to) = GetTableID(catOp.before, catOp.name)
    /\ Len(Pairs(LoadTree(NoFault, meta.Tables[catOp.to]).t)) = 1

\* the run r left every table but name its id and every id but t what it loads
OthersKept(r, name, t) ==
    /\ \A other \in Names \ {name} : GetTableID(r.meta, other) = GetTableID(meta, other)
    /\ \A j \in (1..meta.NextTableID) \ {t} : LoadOf(r, j) = LoadView(j)
\* r is the run of DeleteTable(name)
DeleteLawOf(r, name) ==
    IF name \notin DOMAIN meta.Tables
    THEN r.halt = "notfound" /\ Untouched(r) /\ r.cache = cache
    ELSE /\ Running(r)
         /\ ~GetTableID(r.meta, name).ok
         /\ LoadOf(r, meta.Tables[name]) = Absent
         /\ ChainPages(pages, meta, meta.Tables[name]) \subseteq FreePages(r.pages, r.meta)
         /\ OthersKept(r, name, meta.Tables[name])
\* C17: DeleteTable(name) fails with not-found, appends nothing to the WAL and
\* changes nothing when the name is unknown; otherwise the name is gone, the blob
\* of its id is absent, every page of the former chain of the id is on the free
\* list, and the other tables keep their names, ids and blobs.
C17_DeleteTable ==
    (alive /\ ~hung) => \A name \in Names : DeleteLawOf(DeleteTable(NoFault, name), name)

\* r is the run of StoreTree(tableID, t): if it returned nil, LoadTree(tableID)
\* returns the pairs of t
RoundTrip(r, tableID, t) ==
    Running(r) =>
        /\ LoadTableBlob(r, tableID).halt = "run"
        /\ LoadTree(r, tableID).ok
        /\ Pairs(LoadTree(r, tableID).t) = Pairs(t)
\* C18: tree round trip through the catalog: after StoreTree(id, t), LoadTree(id)
\* gives the key/value pairs of t in the same order; LoadTree of an id whose blob
\* is absent or empty gives an empty tree.
C18_TreeRoundTrip ==
    (alive /\ ~hung) =>
        /\ \A name \in DOMAIN meta.Tables : \A t \in CatTrees :
              RoundTrip(StoreTree(NoFault, meta.Tables[name], t), meta.Tables[name], t)
        /\ \A tableID \in 1..(meta.NextTableID + 1) :
              (~LoadView(tableID).ok \/ LoadView(tableID).blob = <<>>)
                  => Pairs(LoadTree(NoFault, tableID).t) = <<>>

\* ---------------------------------------------------------------- B+ tree: height and scans
\* Height and RangeFrom are called by the engine; their code is not in the
\* source. Height: the number of edges from the root to a leaf.
RECURSIVE heightBelow(_, _)
heightBelow(t, n) ==
    IF t.nodes[n].IsLeaf THEN 0 ELSE 1 + heightBelow(t, t.nodes[n].Children[1])
Height(t) == IF t.Root = 0 THEN 0 ELSE heightBelow(t, t.Root)

\* the pairs of the leaves on the forward chain that starts at leaf n
RECURSIVE chainPairs(_, _, _)
chainPairs(t, n, fuel) ==
    IF n = 0 \/ fuel = 0 THEN <<>>
    ELSE PairsBelow(t, n) \o chainPairs(t, t.nodes[n].Next, fuel - 1)
\* the first limit elements of a sequence, all of them when limit = 0
Limited(seq, limit) ==
    IF limit = 0 \/ limit >= Len(seq) THEN seq ELSE SubSeq(seq, 1, limit)
\* RangeFrom(start, limit): walk to the leaf of start, follow the forward chain
\* and give the pairs with key >= start
RangeFrom(t, start, limit) ==
    IF t.Root = 0 THEN <<>>
    ELSE Limited(SelectSeq(chainPairs(t, findLeaf(t, t.Root, start), Len(t.nodes)),
                           LAMBDA p : p[1] >= start),
                 limit)

\* the root node of the tree in memory, and its leftmost leaf
RootNode(t) == t.nodes[t.Root]
LeftmostLeaf(t) == t.nodes[findLeaf(t, t.Root, 0)]
\* the key goes into a root that is a leaf holding Order-1 keys: of the Order
\* keys the first Order/2 stay in the old leaf
SplitsAtHalf(t, k) ==
    (RootNode(t).IsLeaf /\ Len(RootNode(t).Keys) = Order - 1 /\ ~Get(t, k).ok)
        => Len(LeftmostLeaf(Insert(t, k, "x")).Keys) = Order \div 2
\* C21: split behaviour at order 4: a leaf is split once it holds Order = 4 keys,
\* the keys from index Order/2 going to the new leaf; the tree made by inserting
\* five keys in ascending order into an empty tree has height 1 and a root of one key.
C21_SplitAtOrder ==
    /\ \A k \in Keys : SplitsAtHalf(tree, k)
    /\ tree = Ascending(5) => (Height(tree) = 1 /\ Len(RootNode(tree).Keys) = 1)

\* the nodes of the subtree of node n, and the keys they hold
RECURSIVE NodesBelow(_, _)
NodesBelow(t, n) ==
    {n} \cup UNION {NodesBelow(t, t.nodes[n].Children[i]) : i \in 1..Len(t.nodes[n].Children)}
KeysBelow(t, n) == UNION {Range(t.nodes[m].Keys) : m \in NodesBelow(t, n)}
\* the depths of the leaves below node n, n being at depth d
RECURSIVE LeafDepths(_, _, _)
LeafDepths(t, n, d) ==
    IF t.nodes[n].IsLeaf THEN {d}
    ELSE UNION {LeafDepths(t, t.nodes[n].Children[i], d + 1) : i \in 1..Len(t.nodes[n].Children)}
StrictlyIncreasing(keys) == \A i \in 1..(Len(keys) - 1) : keys[i] < keys[i + 1]
\* the keys below Children[i] are < Keys[i], those below Children[i+1] are >= Keys[i]
Separates(t, node) ==
    \A i \in 1..Len(node.Keys) :
        /\ \A k \in KeysBelow(t, node.Children[i]) : k < node.Keys[i]
        /\ \A k \in KeysBelow(t, node.Children[i + 1]) : k >= node.Keys[i]
NodeWellFormed(t, node) ==
    /\ StrictlyIncreasing(node.Keys)
    /\ Len(node.Keys) <= Order - 1
    /\ IF node.IsLeaf
       THEN Len(node.Keys) = Len(node.Values)
       ELSE /\ Len(node.Keys) >= 1
            /\ Len(node.Children) = Len(node.Keys) + 1
            /\ Separates(t, node)
WellFormed(t) ==
    t.Root # 0 =>
        /\ \A n \in NodesBelow(t, t.Root) : NodeWellFormed(t, t.nodes[n])
        /\ Cardinality(LeafDepths(t, t.Root, 0)) = 1
\* C22: structural invariants after any sequence of Insert and Delete: keys
\* strictly increasing in every node, as many values as keys in a leaf, at least
\* one key and one child more than keys in an internal node, at most Order-1 keys
\* in a node, the keys of Children[i] below Keys[i] and those of Children[i+1] not
\* below it, all leaves at the same depth.
C22_Structure == WellFormed(tree)
\* an Insert of a new key split an internal node of a tree and gave it a third
\* level, or a Delete emptied a leaf below an internal node
C22_Witness ==
    \/ treeOp.op = "Insert" /\ ~treeOp.before.ok /\ Height(tree) = 2
          /\ Len(RootNode(tree).Keys) = 1
    \/ treeOp.op = "Delete" /\ treeOp.ok /\ Height(tree) >= 1
          /\ \E n \in NodesBelow(tree, tree.Root) :
                tree.nodes[n].IsLeaf /\ tree.nodes[n].Keys = <<>>

\* the leaves below node n, left to right
RECURSIVE LeavesBelow(_, _)
RECURSIVE LeavesFrom(_, _, _)
LeavesBelow(t, n) ==
    IF t.nodes[n].IsLeaf THEN <<n>> ELSE LeavesFrom(t, t.nodes[n].Children, 1)
LeavesFrom(t, children, i) ==
    IF i > Len(children) THEN <<>>
    ELSE LeavesBelow(t, children[i]) \o LeavesFrom(t, children, i + 1)
\* the leaves on the forward chain that starts at leaf n
RECURSIVE ChainLeaves(_, _, _)
ChainLeaves(t, n, fuel) ==
    IF n = 0 \/ fuel = 0 THEN <<>>
    ELSE <<n>> \o ChainLeaves(t, t.nodes[n].Next, fuel - 1)
\* C23: leaf chain completeness: after any sequence of Insert and Delete on a
\* tree made by New, the Next links from the leftmost leaf visit every leaf once,
\* left to right, and RangeFrom("", 0) gives every stored pair once in ascending
\* key order.
C23_LeafChain ==
    /\ ChainLeaves(tree, findLeaf(tree, tree.Root, 0), Len(tree.nodes) + 1)
           = LeavesBelow(tree, tree.Root)
    /\ RangeFrom(tree, 0, 0) = Pairs(tree)

\* every cached page is the page of the data file
CacheCoherent ==
    \A pid \in DOMAIN cache : pid <= Len(pages) /\ cache[pid] = pages[pid]
\* what LoadTableBlob(tableID) returns when it reads every page from the data file
LoadUncached(tableID) ==
    LoadOf([NoFault EXCEPT !.cache = EmptyMap, !.order = <<>>], tableID)
\* C30: the page cache has no correctness role: whenever no public call is in
\* progress every cached page is byte-identical to that page in the data file,
\* and each LoadTableBlob returns what it returns with the cache disabled.
C30_CacheNoRole ==
    (alive /\ ~hung) =>
        /\ CacheCoherent
        /\ \A i \in TableIds : LoadView(i) = LoadUncached(i)

\* ---------------------------------------------------------------- page cache alone
\* readPage and writePage on a pager whose maxCache is CacheCap, over the pages
\* 1..CacheCap+1 of its data file
CachePids == 1..(CacheCap + 1)
Small == [NoFault EXCEPT !.maxCache = CacheCap]
\* pid was used last
Use(seq, pid) == Append(SelectSeq(seq, LAMBDA x : x # pid), pid)
Cached(r, pid) ==
    /\ Running(r)
    /\ pages' = r.pages /\ cache' = r.cache /\ order' = r.order
    /\ used' = Use(used, pid)
    /\ UNCHANGED <<dmeta, wal, alive, hung, meta, walOff, ev, call, session, ncalls, opens,
                   snap, held, tree, treeOp, ref, catOp, writeMu, txs, conns, opts, srvOp, mu, got, work>>
PageRead(pid) ==
    /\ alive /\ ~hung
    /\ Cached(readPage(Small, pid), pid)
PageWrite(pid, page) ==
    /\ alive /\ ~hung
    /\ Cached(writePage(Small, pid, page), pid)
NextCache ==
    \/ \E pid \in CachePids : PageRead(pid)
    \/ \E pid \in CachePids, page \in {ZeroPage, PayloadPage(<<1>>)} : PageWrite(pid, page)
SpecCache == Init /\ [][NextCache]_vars

\* the cached page whose last use is the oldest
LeastRecent == Head(SelectSeq(used, LAMBDA x : x \in DOMAIN cache))
\* cachePut of a page that is not cached into a full cache drops the page used
\* least recently
EvictsLeastRecent(pid) ==
    (pid \notin DOMAIN cache /\ Cardinality(DOMAIN cache) = CacheCap)
        => DOMAIN cache \ DOMAIN cachePut(Small, pid, ZeroPage).cache = {LeastRecent}
\* C29: LRU eviction: a page put into a full cache evicts the cached page whose
\* most recent use, read hit or write, is the oldest (so never a page just
\* written through writePage while a page used earlier stays), and the cache
\* never holds more pages than its capacity.
C29_LruEviction ==
    /\ Cardinality(DOMAIN cache) <= CacheCap
    /\ \A pid \in CachePids : EvictsLeastRecent(pid)

\* ---------------------------------------------------------------------
\* transaction manager (package txn)
\* ---------------------------------------------------------------------

\* the Manager and the Tx values it has handed out
Mgr == [writeMu |-> writeMu, txs |-> txs]
\* a faulty variant of Blocks, for C37: Lock() does not wait
BlocksNever(m, readOnly) == FALSE
\* m.writeMu.Lock() waits while the mutex is locked
Blocks(m, readOnly) == ~readOnly /\ m.writeMu
\* Begin, once the lock (if any) is taken; readOnly, ends, unlocks and last
\* are history of the Tx: how it was begun, the calls of Commit and Abort on
\* it, the calls of writeMu.Unlock they made and the last call on it
Begin(m, readOnly) ==
    [writeMu |-> IF readOnly THEN m.writeMu ELSE TRUE,
     txs |-> Append(m.txs, [writeHeld |-> ~readOnly, readOnly |-> readOnly,
                            ends |-> 0, unlocks |-> 0, last |-> "Begin"])]
CommitKeepHeld(m, i) ==
    IF m.txs[i].writeHeld
    THEN [writeMu |-> FALSE,
          txs |-> [m.txs EXCEPT ![i].ends = @ + 1, ![i].unlocks = @ + 1,
                                ![i].last = "Commit"]]
    ELSE [m EXCEPT !.txs[i].ends = @ + 1, !.txs[i].last = "Commit"]
Commit(m, i) ==
    IF m.txs[i].writeHeld
    THEN [writeMu |-> FALSE,
          txs |-> [m.txs EXCEPT ![i].writeHeld = FALSE, ![i].ends = @ + 1,
                                ![i].unlocks = @ + 1, ![i].last = "Commit"]]
    ELSE [m EXCEPT !.txs[i].ends = @ + 1, !.txs[i].last = "Commit"]
Abort(m, i) ==
    IF m.txs[i].writeHeld
    THEN [writeMu |-> FALSE,
          txs |-> [m.txs EXCEPT ![i].writeHeld = FALSE, ![i].ends = @ + 1,
                                ![i].unlocks = @ + 1, ![i].last = "Abort"]]
    ELSE [m EXCEPT !.txs[i].ends = @ + 1, !.txs[i].last = "Abort"]

\* a call on the manager returns
TxStep(m) ==
    /\ writeMu' = m.writeMu /\ txs' = m.txs
    /\ UNCHANGED <<pages, dmeta, wal, alive, hung, meta, cache, order, walOff, ev, call,
                   session, ncalls, opens, snap, held, tree, treeOp, ref, catOp,
                   used, conns, opts, srvOp, mu, got, work>>
TxBegin(readOnly) ==
    /\ Len(txs) < MaxTx
    /\ ~Blocks(Mgr, readOnly)
    /\ TxStep(Begin(Mgr, readOnly))
TxCommit(i) ==
    /\ i \in DOMAIN txs
    /\ txs[i].ends < MaxEnds
    /\ TxStep(Commit(Mgr, i))
TxAbort(i) ==
    /\ i \in DOMAIN txs
    /\ txs[i].ends < MaxEnds
    /\ TxStep(Abort(Mgr, i))
NextTxn ==
    \/ \E readOnly \in BOOLEAN : TxBegin(readOnly)
    \/ \E i \in 1..MaxTx : TxCommit(i)
    \/ \E i \in 1..MaxTx : TxAbort(i)
SpecTxn == Init /\ [][NextTxn]_vars

Holders(m) == {i \in DOMAIN m.txs : m.txs[i].writeHeld}

\* C27: at most one Tx has writeHeld, and the mutex is locked exactly while
\* one has; Begin(false) waits exactly while a write transaction is
\* outstanding, Begin(true) never waits and leaves the mutex alone; a Tx
\* unlocks at most once, a read-only Tx never, and Commit or Abort of a Tx
\* that does not hold the lock leaves the mutex and every other Tx alone.
C27_SingleWriter ==
    /\ Cardinality(Holders(Mgr)) <= 1
    /\ writeMu <=> Holders(Mgr) # {}
    /\ Blocks(Mgr, FALSE) <=> Holders(Mgr) # {}
    /\ ~Blocks(Mgr, TRUE)
    /\ Begin(Mgr, TRUE).writeMu = writeMu
    /\ Holders(Begin(Mgr, TRUE)) = Holders(Mgr)
    /\ \A i \in DOMAIN txs :
        /\ txs[i].unlocks <= 1
        /\ txs[i].readOnly => (txs[i].unlocks = 0 /\ ~txs[i].writeHeld)
        /\ Holders(Commit(Mgr, i)) = Holders(Mgr) \ {i}
        /\ Holders(Abort(Mgr, i)) = Holders(Mgr) \ {i}
        /\ ~txs[i].writeHeld =>
            /\ Commit(Mgr, i).writeMu = writeMu
            /\ Abort(Mgr, i).writeMu = writeMu
\* a write Tx ended twice, a read-only Tx ended, and a later write Tx holding
\* the lock
C27_Witness ==
    /\ \E i \in DOMAIN txs : txs[i].ends = 2 /\ txs[i].unlocks = 1
    /\ \E i \in DOMAIN txs : txs[i].readOnly /\ txs[i].ends >= 1
    /\ \E i \in DOMAIN txs : txs[i].writeHeld

\* ---------------------------------------------------------------------
\* Pager.mu: a writer goroutine and a reader goroutine on one pager
\* ---------------------------------------------------------------------
\* While the writer is inside its call the state variables hold the files and
\* the memory as they were when it took the lock; mu.step is the point of the
\* call it has reached, and the call takes effect as a whole at the unlock.

\* p.mu.Lock() returns: the mutex is free
LockMuFree(m) == TRUE
LockMu(m) == ~m.busy

\* the call the writer is in, run to its end
WriterRun(m) ==
    IF m.op = "store" THEN StoreTableBlob(NoFault, m.id, m.blob)
    ELSE DeleteTableBlob(NoFault, m.id)
\* the files and the memory at the point the writer has reached
AtPoint(f) ==
    [NoFault EXCEPT !.pages = f.pages, !.dmeta = f.dmeta, !.wal = f.wal,
                    !.meta = f.meta, !.cache = f.cache, !.order = f.order]
MidState(m) ==
    IF m.busy /\ m.step > 0 THEN AtPoint(WriterRun(m).trace[m.step]) ELSE NoFault

WriterLocked(op, tableID, blob) ==
    /\ LockMu(mu)
    /\ mu' = [busy |-> TRUE, op |-> op, id |-> tableID, blob |-> blob, step |-> 0]
    /\ Len(WriterRun(mu').pages) + 1 <= MaxPages
    /\ UNCHANGED <<pages, dmeta, wal, alive, hung, meta, cache, order, walOff, ev, call,
                   session, ncalls, opens, snap, held, tree, treeOp, ref, catOp,
                   used, writeMu, txs, conns, opts, srvOp, got, work>>
\* StoreTableBlob: p.mu.Lock()
StoreLock(tableID, blob) ==
    /\ alive /\ ~hung /\ ncalls < MaxLockCalls
    /\ WriterLocked("store", tableID, blob)
\* DeleteTableBlob: p.mu.Lock()
DeleteLock(tableID) ==
    /\ alive /\ ~hung /\ ncalls < MaxLockCalls
    /\ WriterLocked("delete", tableID, <<>>)
\* the writer goes on to its next file write or checkpoint
WriterStep ==
    /\ mu.busy
    /\ mu.step < Len(WriterRun(mu).trace)
    /\ mu' = [mu EXCEPT !.step = @ + 1]
    /\ UNCHANGED <<pages, dmeta, wal, alive, hung, meta, cache, order, walOff, ev, call,
                   session, ncalls, opens, snap, held, tree, treeOp, ref, catOp,
                   used, writeMu, txs, conns, opts, srvOp, got, work>>
\* the call returns: defer p.mu.Unlock()
WriterUnlock ==
    /\ mu.busy
    /\ mu.step = Len(WriterRun(mu).trace)
    /\ Returned(WriterRun(mu))
    /\ Called(mu.op, mu.id, mu.blob, WriterRun(mu).halt, WriterRun(mu).stage)
    /\ ncalls' = ncalls + 1
    /\ mu' = NoLock
    /\ UNCHANGED <<used, writeMu, txs, conns, opts, srvOp, got, work>>
\* LoadTableBlob(tableID) of the reader: lock, walk the chain, unlock. pre and
\* post are what the table holds before and after the call the writer is in.
ReaderLoad(tableID) ==
    /\ alive /\ ~hung
    /\ LockMu(mu)
    /\ got' = [ok |-> TRUE, id |-> tableID,
               res |-> LoadOf(MidState(mu), tableID),
               pre |-> LoadView(tableID),
               post |-> IF mu.busy THEN LoadOf(WriterRun(mu), tableID)
                        ELSE LoadView(tableID)]
    /\ IF mu.busy
       THEN UNCHANGED <<cache, order, hung>>
       ELSE /\ cache' = LoadTableBlob(NoFault, tableID).cache
            /\ order' = LoadTableBlob(NoFault, tableID).order
            /\ hung' = (LoadTableBlob(NoFault, tableID).halt = "hang")
    /\ UNCHANGED <<pages, dmeta, wal, alive, meta, walOff, ev, call,
                   session, ncalls, opens, snap, held, tree, treeOp, ref, catOp,
                   used, writeMu, txs, conns, opts, srvOp, mu, work>>
NextLock ==
    \/ \E i \in TableIds, b \in Blobs : StoreLock(i, b)
    \/ \E i \in TableIds : DeleteLock(i)
    \/ WriterStep
    \/ WriterUnlock
    \/ \E i \in TableIds : ReaderLoad(i)
SpecLock == Init /\ [][NextLock]_vars

\* what a LoadTableBlob(i) that did not wait for the lock would return now
Unlocked(i) == LoadOf(MidState(mu), i)
\* ... is neither the blob before the writer's call nor the one after it
Torn(i) == Unlocked(i) \notin {LoadView(i), LoadOf(WriterRun(mu), i)}

\* C28: a LoadTableBlob of the reader goroutine returns the whole blob the
\* table held before the call the writer goroutine is in, or the whole result
\* of that call, whatever point the writer has reached.
C28_ReaderIsolation == got.ok => got.res \in {got.pre, got.post}
\* the writer is at a point of a call on a table where a load would be torn,
\* and the reader has loaded this table
C28_Witness ==
    /\ mu.busy /\ mu.step > 0
    /\ Torn(mu.id)
    /\ got.ok /\ got.id = mu.id /\ got.res.ok

\* ---------------------------------------------------------------------
\* engine and TCP server (package engine, package server)
\* ---------------------------------------------------------------------

\* tree.Insert(key, value); StoreTree(id, tree), r1 = the run of LoadTableBlob(id)
\* in LoadTree: a load that failed gives a new tree
engPut(r1, id, key, value) ==
    IF r1.halt = "hang" THEN r1
    ELSE IF ~treeOfBlob(r1.res).ok THEN Halt([r1 EXCEPT !.halt = "run"], "err")
    ELSE StoreTree([r1 EXCEPT !.halt = "run"], id, Insert(treeOfBlob(r1.res).t, key, value))
engInsert(st, table, key, value) ==
    IF ~GetTableID(st.meta, table).ok THEN Halt(st, "notfound")
    ELSE engPut(LoadTableBlob(st, st.meta.Tables[table]), st.meta.Tables[table], key, value)
engUpdate(st, table, key, value) == engInsert(st, table, key, value)
\* tree.Delete(key); StoreTree(id, tree), r1 as above
engCut(r1, id, key) ==
    IF r1.halt = "hang" THEN r1
    ELSE IF ~treeOfBlob(r1.res).ok THEN Halt([r1 EXCEPT !.halt = "run"], "err")
    ELSE IF ~Delete(treeOfBlob(r1.res).t, key).ok
    THEN Halt([r1 EXCEPT !.halt = "run"], "notfound")
    ELSE StoreTree([r1 EXCEPT !.halt = "run"], id, Delete(treeOfBlob(r1.res).t, key).t)
engDelete(st, table, key) ==
    IF ~GetTableID(st.meta, table).ok THEN Halt(st, "notfound")
    ELSE engCut(LoadTableBlob(st, st.meta.Tables[table]), st.meta.Tables[table], key)
engTruncate(st, table) ==
    IF ~GetTableID(st.meta, table).ok THEN Halt(st, "notfound")
    ELSE StoreTree(st, st.meta.Tables[table], New)

\* parser.Command
Cmd(name, args) == [Name |-> name, Args |-> args]
\* the write commands a connection sends
WriteCmds ==
    {Cmd("CREATE", <<n>>) : n \in Names} \cup {Cmd("DROP", <<n>>) : n \in Names}
    \cup {Cmd("DELETE", <<n>>) : n \in Names} \cup {Cmd("DELETE", <<n, 1>>) : n \in Names}
    \cup {Cmd("INSERT", <<n, 1, "x">>) : n \in Names}
    \cup {Cmd("UPDATE", <<n, 1, "y">>) : n \in Names}
    \cup {Cmd("TRUNCATE", <<n>>) : n \in Names}
    \cup {Cmd("RENAME", <<n, m>>) : n, m \in Names}
WriteNames == {"CREATE", "INSERT", "UPDATE", "DELETE", "DROP", "RENAME", "TRUNCATE", "LOAD"}
\* the cases of handleConn that test opts.ReadOnly and authed
Guarded == {"CREATE", "INSERT", "UPDATE", "DELETE", "DROP"}
\* the call of the engine a write command makes
Exec(st, cmd) ==
    CASE cmd.Name = "CREATE" -> CreateTable(st, cmd.Args[1])
      [] cmd.Name = "INSERT" -> engInsert(st, cmd.Args[1], cmd.Args[2], cmd.Args[3])
      [] cmd.Name = "UPDATE" -> engUpdate(st, cmd.Args[1], cmd.Args[2], cmd.Args[3])
      [] cmd.Name = "DELETE" /\ Len(cmd.Args) = 1 -> DeleteTable(st, cmd.Args[1])
      [] cmd.Name = "DELETE" /\ Len(cmd.Args) = 2 -> engDelete(st, cmd.Args[1], cmd.Args[2])
      [] cmd.Name = "DROP" -> DeleteTable(st, cmd.Args[1])
      [] cmd.Name = "RENAME" -> RenameTable(st, cmd.Args[1], cmd.Args[2])
      [] cmd.Name = "TRUNCATE" -> engTruncate(st, cmd.Args[1])

\* servers: the flags -auth and -readonly
Tokens == {"", "s"}
AllOptions == [RequireToken : Tokens, ReadOnly : BOOLEAN]
\* a database an earlier process left: table "a" with one row
Populated == engInsert(CreateTable(InitRun, "a"), "a", 1, "x")
SrvStarts == {InitRun, Open(Boot([Populated EXCEPT !.ev = <<>>, !.trace = <<>>]))}
InitSrv ==
    \E r \in SrvStarts, o \in AllOptions :
        InitFrom(r) /\ tree = New /\ ref = EmptyMap /\ opts = o

SrvReady == alive /\ ~hung /\ ncalls < MaxSrvCmds
\* the pager is not called
PagerIdle ==
    UNCHANGED <<pages, dmeta, wal, alive, hung, meta, cache, order, walOff, ev, call,
                session, opens, snap, held, tree, treeOp, ref, catOp>>
\* connection c has sent cmd and got reply; conn1 and m1 are the locals of its
\* handleConn and the transaction manager after the command. srvOp keeps the
\* tables and the locals as they were before the command (tables, loads, conn0)
Answered(c, cmd, reply, conn1, m1) ==
    /\ conns' = [conns EXCEPT ![c] = conn1]
    /\ writeMu' = m1.writeMu /\ txs' = m1.txs
    /\ srvOp' = [conn |-> c, cmd |-> cmd.Name, args |-> cmd.Args, reply |-> reply,
                 tables |-> meta.Tables, loads |-> LoadAll, conn0 |-> conns[c],
                 conn1 |-> conn1]
    /\ ncalls' = ncalls + 1
    /\ UNCHANGED <<used, opts, mu, got, work>>

\* ln.Accept(); go handleConn(...)
Accept(c) ==
    /\ alive /\ ~hung /\ ~conns[c].open
    /\ conns' = [conns EXCEPT ![c] = [open |-> TRUE, authed |-> opts.RequireToken = "",
                                      inTx |-> FALSE, writeTx |-> FALSE, curTx |-> 0]]
    /\ PagerIdle
    /\ UNCHANGED <<ncalls, used, writeMu, txs, opts, srvOp, mu, got, work>>
\* what Tx.Abort leaves when curTx != nil
AbortIf(m, i) == IF i # 0 THEN Abort(m, i) ELSE m
CommitIf(m, i) == IF i # 0 THEN Commit(m, i) ELSE m
\* the socket is closed: in.Scan() returns false, the loop ends and
\* if curTx != nil { curTx.Abort() } runs
Hangup(c) ==
    /\ alive /\ ~hung /\ conns[c].open
    /\ conns' = [conns EXCEPT ![c] = NoConn]
    /\ writeMu' = AbortIf(Mgr, conns[c].curTx).writeMu
    /\ txs' = AbortIf(Mgr, conns[c].curTx).txs
    /\ PagerIdle
    /\ UNCHANGED <<ncalls, used, opts, srvOp, mu, got, work>>
\* case "EXIT", "QUIT": "Bye" and return, from inside the loop: the handler is
\* left with what it holds, only the deferred conn.Close() runs
ExitCmd(c) ==
    /\ SrvReady /\ conns[c].open
    /\ PagerIdle
    /\ Answered(c, Cmd("EXIT", <<>>), "Bye", NoConn, Mgr)
AuthCmd(c, token) ==
    /\ SrvReady /\ conns[c].open
    /\ PagerIdle
    /\ IF opts.RequireToken = "" THEN Answered(c, Cmd("AUTH", <<token>>), "OK", conns[c], Mgr)
       ELSE IF token = opts.RequireToken
       THEN Answered(c, Cmd("AUTH", <<token>>), "OK", [conns[c] EXCEPT !.authed = TRUE], Mgr)
       ELSE Answered(c, Cmd("AUTH", <<token>>), "ERR: unauthorized", conns[c], Mgr)
\* a faulty variant of BeginCmd, for C40: BEGIN READONLY takes the lock as well
BeginCmdLockAlways(c, readOnly) ==
    /\ SrvReady /\ conns[c].open
    /\ PagerIdle
    /\ IF conns[c].inTx
       THEN Answered(c, Cmd("BEGIN", <<readOnly>>), "ERR: already in transaction",
                     conns[c], Mgr)
       ELSE /\ ~Blocks(Mgr, FALSE)
            /\ Answered(c, Cmd("BEGIN", <<readOnly>>), "OK",
                        [conns[c] EXCEPT !.inTx = TRUE, !.writeTx = ~readOnly,
                                         !.curTx = Len(txs) + 1],
                        Begin(Mgr, FALSE))
BeginCmd(c, readOnly) ==
    /\ SrvReady /\ conns[c].open
    /\ PagerIdle
    /\ IF conns[c].inTx
       THEN Answered(c, Cmd("BEGIN", <<readOnly>>), "ERR: already in transaction",
                     conns[c], Mgr)
       ELSE IF readOnly
       THEN Answered(c, Cmd("BEGIN", <<readOnly>>), "OK",
                     [conns[c] EXCEPT !.inTx = TRUE, !.writeTx = FALSE, !.curTx = 0], Mgr)
       ELSE /\ ~Blocks(Mgr, FALSE)
            /\ Answered(c, Cmd("BEGIN", <<readOnly>>), "OK",
                        [conns[c] EXCEPT !.inTx = TRUE, !.writeTx = TRUE,
                                         !.curTx = Len(txs) + 1],
                        Begin(Mgr, FALSE))
CommitCmd(c) ==
    /\ SrvReady /\ conns[c].open
    /\ PagerIdle
    /\ IF ~conns[c].inTx
       THEN Answered(c, Cmd("COMMIT", <<>>), "ERR: not in transaction", conns[c], Mgr)
       ELSE Answered(c, Cmd("COMMIT", <<>>), "OK",
                     [conns[c] EXCEPT !.inTx = FALSE, !.writeTx = FALSE, !.curTx = 0],
                     CommitIf(Mgr, conns[c].curTx))
AbortCmd(c) ==
    /\ SrvReady /\ conns[c].open
    /\ PagerIdle
    /\ IF ~conns[c].inTx
       THEN Answered(c, Cmd("ABORT", <<>>), "ERR: not in transaction", conns[c], Mgr)
       ELSE Answered(c, Cmd("ABORT", <<>>), "OK",
                     [conns[c] EXCEPT !.inTx = FALSE, !.writeTx = FALSE, !.curTx = 0],
                     AbortIf(Mgr, conns[c].curTx))
\* LOAD is no case of the switch
UnknownCmd(c) ==
    /\ SrvReady /\ conns[c].open
    /\ PagerIdle
    /\ Answered(c, Cmd("LOAD", <<"a", "f">>), "ERR: unknown command", conns[c], Mgr)
\* a write command stopped by opts.ReadOnly or by !authed
Refusal(c, cmd) ==
    IF cmd.Name \notin Guarded THEN ""
    ELSE IF opts.ReadOnly THEN "ERR: read-only"
    ELSE IF ~conns[c].authed THEN "ERR: unauthorized"
    ELSE ""
WriteRefused(c, cmd) ==
    /\ SrvReady /\ conns[c].open
    /\ Refusal(c, cmd) # ""
    /\ PagerIdle
    /\ Answered(c, cmd, Refusal(c, cmd), conns[c], Mgr)
\* implicit := !inTx || !writeTx
Implicit(conn) == ~conn.inTx \/ ~conn.writeTx
\* the engine is called, inside the transaction of the connection or inside
\* one begun and committed around the call
WriteCmd(c, cmd) ==
    /\ SrvReady /\ conns[c].open
    /\ Refusal(c, cmd) = ""
    /\ Implicit(conns[c]) => ~Blocks(Mgr, FALSE)
    /\ Returned(Exec(NoFault, cmd))
    /\ call' = [op |-> "server", id |-> 0, blob |-> <<>>, halt |-> Exec(NoFault, cmd).halt,
                stage |-> Exec(NoFault, cmd).stage, pre |-> LoadAll]
    /\ opens' = 0 /\ snap' = NoSnap /\ session' = session /\ catOp' = NoCatOp
    /\ Answered(c, cmd,
                IF Exec(NoFault, cmd).halt = "run" THEN "OK" ELSE "ERR",
                IF Implicit(conns[c])
                THEN [conns[c] EXCEPT !.inTx = FALSE, !.writeTx = FALSE, !.curTx = 0]
                ELSE conns[c],
                IF Implicit(conns[c])
                THEN Commit(Begin(Mgr, FALSE), Len(txs) + 1)
                ELSE Mgr)
NextSrv ==
    \/ \E c \in Conns : Accept(c)
    \/ \E c \in Conns : Hangup(c)
    \/ \E c \in Conns : ExitCmd(c)
    \/ \E c \in Conns, token \in {"s", "t"} : AuthCmd(c, token)
    \/ \E c \in Conns, readOnly \in BOOLEAN : BeginCmd(c, readOnly)
    \/ \E c \in Conns : CommitCmd(c)
    \/ \E c \in Conns : AbortCmd(c)
    \/ \E c \in Conns : UnknownCmd(c)
    \/ \E c \in Conns, cmd \in WriteCmds : WriteRefused(c, cmd)
    \/ \E c \in Conns, cmd \in WriteCmds : WriteCmd(c, cmd)
SpecSrv == InitSrv /\ [][NextSrv]_vars

\* the last command left the table names, the table ids and the table contents
\* as they were
NoChange == meta.Tables = srvOp.tables /\ LoadAll = srvOp.loads
IsError(reply) == reply \in {"ERR", "ERR: read-only", "ERR: unauthorized",
                             "ERR: unknown command", "ERR: already in transaction",
                             "ERR: not in transaction"}

\* C24: in a server started with ReadOnly, whatever command a connection has
\* sent last, the table names, ids and contents are as before the command.
C24_ReadOnlyBlocksWrites ==
    (opts.ReadOnly /\ srvOp.cmd # "none") => NoChange

\* C25: in a server that requires a token, a write command of a connection that
\* was not authenticated is answered with an error and changes nothing; AUTH
\* with another token than the required one does not authenticate.
C25_WriteNeedsAuth ==
    /\ (opts.RequireToken # "" /\ srvOp.cmd \in WriteNames /\ ~srvOp.conn0.authed) =>
           (IsError(srvOp.reply) /\ NoChange)
    /\ (srvOp.cmd = "AUTH" /\ opts.RequireToken # "" /\ ~srvOp.conn0.authed
        /\ srvOp.args # <<opts.RequireToken>>) =>
           (srvOp.reply = "ERR: unauthorized" /\ ~conns[srvOp.conn].authed)

\* the connection is in a transaction begun by BEGIN without READONLY
InWriteTx(conn) == conn.inTx /\ conn.writeTx
\* C26: a write command of a connection that is in no transaction, or in one
\* begun with BEGIN READONLY, is answered with an error, changes no table and
\* leaves the connection in the transaction it was in.
C26_WriteNeedsWriteTx ==
    (srvOp.cmd \in WriteNames /\ ~InWriteTx(srvOp.conn0)) =>
        /\ IsError(srvOp.reply)
        /\ NoChange
        /\ srvOp.conn1.inTx = srvOp.conn0.inTx
        /\ srvOp.conn1.writeTx = srvOp.conn0.writeTx

\* ---------------------------------------------------------------------
\* metadata and page 0
\* ---------------------------------------------------------------------
\* table names of a database with many tables, in the order of their creation
NameSeq == <<"a", "b", "c", "d", "e", "f", "g", "h", "i", "j", "k", "l", "m">>
\* the first process has created the first n of them
RECURSIVE Created(_)
Created(n) == IF n = 0 THEN InitRun ELSE CreateTable(Created(n - 1), NameSeq[n])
\* the names the calls of the catalog are made on
LastNames == {NameSeq[Len(NameSeq) - 1], NameSeq[Len(NameSeq)]}
InitMeta ==
    \E n \in 0..(Len(NameSeq) - 2) :
        InitFrom([Created(n) EXCEPT !.ev = <<>>]) /\ tree = New /\ ref = EmptyMap
                                                  /\ opts = NoOptions
NextMeta ==
    \/ \E name \in LastNames : CreateTableCall(name)
    \/ \E name \in LastNames : DeleteTableCall(name)
    \/ \E name \in LastNames, t \in CatTrees : StoreTreeCall(name, t)
    \/ Exit
    \/ OpenDb
SpecMeta == InitMeta /\ [][NextMeta]_vars

\* C31: page 0 of the data file holds a whole gob stream of a Meta, and a call
\* of the catalog that returned no error has not left in memory a Meta whose
\* stream is longer than a page.
C31_MetaFitsPageZero ==
    /\ Len(dmeta) = 1 => ~IsTruncated(dmeta[1])
    /\ (alive /\ ~hung /\ catOp.op # "none" /\ catOp.halt = "run") =>
           gobMetaLen(meta) <= PageSize

\* ---------------------------------------------------------------------
\* DeleteTable: a crash between DeleteTableBlob and the removal of the name
\* ---------------------------------------------------------------------
\* the process dies in DeleteTable(name) after DeleteTableBlob(id) has returned
\* and before UpdateMeta has written page 0
DeleteTableOrphan(name) ==
    /\ CatReady /\ MayEnd /\ GetTableID(meta, name).ok
    /\ \E k \in 1..Len(DeleteTable(NoFault, name).trace) :
          /\ k > Len(DeleteTableBlob(NoFault, meta.Tables[name]).trace)
          /\ Died(DeleteTable(NoFault, name).trace[k])
          /\ CatCalled("drop", name, "", "crash", "orphan")
NextOrphan ==
    \/ \E name \in Names : CreateTableCall(name)
    \/ \E name \in Names, t \in CatTrees : StoreTreeCall(name, t)
    \/ \E name \in Names : DeleteTableCall(name)
    \/ \E name \in Names : DeleteTableOrphan(name)
    \/ Exit
    \/ OpenDb
SpecOrphan == Init /\ [][NextOrphan]_vars

\* the first Open after such a crash has returned
AfterOrphan ==
    alive /\ ~hung /\ opens = 1 /\ catOp.op = "drop" /\ call.stage = "orphan"
\* no page is twice on the free list, and none is both free and in a chain
NoDoubleFree(pg, m) ==
    /\ EndsAtZero(pg, m.FreeList, {})
    /\ Cardinality(Range(Walk(pg, m.FreeList, <<>>))) = Len(Walk(pg, m.FreeList, <<>>))
    /\ \A i \in DOMAIN m.TableHead : FreePages(pg, m) \cap ChainPages(pg, m, i) = {}
OrphanNameKept ==
    /\ catOp.name \in DOMAIN meta.Tables
    /\ meta.Tables[catOp.name] = catOp.before.Tables[catOp.name]
OrphanTreeEmpty ==
    LoadTree(NoFault, catOp.before.Tables[catOp.name]) = [ok |-> TRUE, t |-> New]
\* r = the run of the repeated DeleteTable(name)
OrphanDropped(r) ==
    /\ r.halt = "run"
    /\ catOp.name \notin DOMAIN r.meta.Tables
    /\ r.dmeta = <<r.meta>>
    /\ NoDoubleFree(r.pages, r.meta)

\* C32: after a crash in DeleteTable(name) between DeleteTableBlob and the
\* removal of the name, and the next Open, the name has the id it had, the
\* tree of that id loads as an empty tree, and DeleteTable(name) called again
\* returns no error, removes the name and leaves no page twice on the free
\* list or both free and in a chain.
C32_OrphanName ==
    AfterOrphan =>
        /\ OrphanNameKept
        /\ OrphanTreeEmpty
        /\ OrphanDropped(DeleteTable(NoFault, catOp.name))
C32_Witness ==
    /\ AfterOrphan
    /\ MapGet(catOp.before.TableHead, catOp.before.Tables[catOp.name]) # 0

\* ---------------------------------------------------------------------
\* B+ tree against a map
\* ---------------------------------------------------------------------
\* the lookup of key in the map
Lookup(m, key) == IF key \in DOMAIN m THEN Found(m[key]) ELSE NotFound

\* C33: after every Insert and Delete, Get(k) on the tree is the lookup of k in
\* the map that was given the same calls, for every key k.
C33_RefinesMap == \A k \in Keys : Get(tree, k) = Lookup(ref, k)
\* the keys of the root of a tree of two levels
RootKeys == IF tree.nodes[tree.Root].IsLeaf THEN {} ELSE Range(tree.nodes[tree.Root].Keys)
\* a leaf left without keys by a Delete
EmptyLeaf ==
    \E n \in DOMAIN tree.nodes :
        tree.nodes[n].IsLeaf /\ tree.nodes[n].Keys = <<>> /\ n # tree.Root
\* a key that is a separator in the root was deleted and then inserted again,
\* or a Delete has emptied a leaf below the root
C33_Witness ==
    \/ /\ treeOp.op = "Insert" /\ ~treeOp.before.ok /\ treeOp.key \in RootKeys
       /\ ncalls = 2
    \/ /\ treeOp.op = "Delete" /\ treeOp.ok /\ EmptyLeaf

\* ---------------------------------------------------------------------
\* the WAL as a sequence of records
\* ---------------------------------------------------------------------
\* data[off..] is record after record as walAppendStore and walAppendDelete
\* write them, the last one possibly cut short by the end of the process
RECURSIVE RecordsFrom(_, _)
RecordsFrom(data, off) ==
    IF off >= Len(data) THEN TRUE
    ELSE IF data[off + 1] \notin {1, 2} THEN FALSE
    ELSE IF off + walHeaderSize > Len(data) THEN TRUE
    ELSE IF data[off + 1] = 2 THEN RecordsFrom(data, off + walHeaderSize)
    ELSE IF off + walHeaderSize + Uint64(data, off + 9) > Len(data) THEN TRUE
    ELSE RecordsFrom(data, off + walHeaderSize + Uint64(data, off + 9))

\* C34: the WAL file is a gap-free sequence of records: every record starts at
\* offset 0 or right after the record before it, also in a process whose Open
\* replayed a WAL and truncated it.
C34_WalGapFree == RecordsFrom(wal, 0)

\* ---------------------------------------------------------------------
\* a store that returns an error
\* ---------------------------------------------------------------------
\* StoreTableBlob calls made in all where one of them may fail.
MaxFailCalls == 2

\* the call returned an error at the file write it was about to make at f: the
\* files and the memory stay as they were there, the WAL handle at off
CallFailed(f, off, op, tableID, blob) ==
    /\ Len(f.pages) + 1 <= MaxPages
    /\ pages' = f.pages /\ dmeta' = f.dmeta /\ wal' = f.wal
    /\ meta' = f.meta /\ cache' = f.cache /\ order' = f.order /\ walOff' = off
    /\ alive' = TRUE /\ hung' = FALSE
    /\ ev' = <<>>
    /\ UNCHANGED <<held, tree, treeOp, ref>>
    /\ Called(op, tableID, blob, "err", f.stage)
    /\ ncalls' = ncalls + 1
    /\ UNCHANGED others

\* StoreTableBlob returns the error of a write to the data file (a page of a
\* chain, the growth of the file, page 0) made after the WAL append
StoreBlobWriteError(tableID, blob) ==
    /\ Ready /\ ncalls < MaxFailCalls
    /\ \E f \in Range(StoreTableBlob(NoFault, tableID, blob).trace) :
          /\ f.at = "write"
          /\ f.wal = StoreTableBlob(NoFault, tableID, blob).wal
          /\ CallFailed(f, StoreTableBlob(NoFault, tableID, blob).walOff,
                        "store", tableID, blob)

\* StoreTableBlob returns nil
StoreBlobDone(tableID, blob) ==
    /\ ncalls < MaxFailCalls
    /\ StoreBlob(tableID, blob)

NextFail ==
    \/ \E i \in TableIds, b \in Blobs : StoreBlobDone(i, b)
    \/ \E i \in TableIds, b \in Blobs : StoreBlobWriteError(i, b)
    \/ \E i \in TableIds : LoadBlob(i)
    \/ Exit
    \/ OpenDb

SpecFail == Init /\ [][NextFail]_vars

\* StoreTableBlob(i, b) returned an error in this process
StoreFailed == alive /\ ~hung /\ opens = 0 /\ call.op = "store" /\ call.halt = "err"
\* what LoadTableBlob returns for a table that holds b
Holding(b) == IF Len(b) = 0 THEN {Absent, Present(b)} ELSE {Present(b)}

\* C35: when StoreTableBlob(i, b) returns an error after its WAL append, the
\* metadata in memory is the one in page 0 of the file, and LoadTableBlob(i)
\* returns the whole blob of before the call or b.
C35_StoreFailureAtomic ==
    StoreFailed =>
        /\ dmeta = <<gobMetaImage(meta)>>
        /\ LoadAll[call.id] \in {call.pre[call.id]} \cup Holding(call.blob)

\* ---------------------------------------------------------------------
\* the write lock at the end of a connection
\* ---------------------------------------------------------------------
\* a server on a new database that asks for the token "s"
InitLive ==
    InitFrom(InitRun) /\ tree = New /\ ref = EmptyMap
                      /\ opts = [RequireToken |-> "s", ReadOnly |-> FALSE]
\* every goroutine of the server that can take a step is scheduled
SpecSrvLive == InitLive /\ [][NextSrv]_vars /\ WF_vars(NextSrv)

\* the write lock is held and no handler holds a transaction: the connection
\* that took it with BEGIN has ended
LockLeft == writeMu /\ \A c \in Conns : conns[c].curTx = 0

\* C36: when a connection that holds the write lock from a BEGIN ends, by a
\* closed socket or by EXIT / QUIT, the lock is released, so that a write
\* command of another connection gets it in the end.
C36_LockReleasedAtEnd == LockLeft ~> ~writeMu

\* ---------------------------------------------------------------------
\* concurrent write requests
\* ---------------------------------------------------------------------
\* Write requests made to a server in all.
MaxReqs == 3
\* INSERT of the TCP server, PUT and DELETE /kv/ of the HTTP server
WorkCmds ==
    {Cmd("INSERT", <<"a", 1, "x">>), Cmd("INSERT", <<"a", 2, "y">>),
     Cmd("PUT", <<"a", 1, "y">>), Cmd("DELETE", <<"a", 1>>)}

\* the pager and the rest of the process are not touched
WorkOnly ==
    /\ UNCHANGED <<pages, dmeta, wal, alive, hung, meta, cache, order, walOff, ev, call,
                   session, opens, snap, held, tree, treeOp, ref, catOp>>
    /\ UNCHANGED <<used, conns, opts, srvOp, mu, got>>
\* a pager call of the engine returned with run r
WorkRan(r) ==
    /\ pages' = r.pages /\ dmeta' = r.dmeta /\ wal' = r.wal
    /\ meta' = r.meta /\ cache' = r.cache /\ order' = r.order /\ walOff' = r.walOff
    /\ ev' = r.ev
    /\ UNCHANGED <<alive, hung, call, session, ncalls, opens, snap, held, tree, treeOp, ref,
                   catOp>>
    /\ UNCHANGED <<used, writeMu, txs, conns, opts, srvOp, mu, got>>

\* a handler has read a write request that passes its ReadOnly and token tests
ReqArrive(h, cmd) ==
    /\ alive /\ ~hung /\ ncalls < MaxReqs
    /\ work.hs[h].pc = "idle"
    /\ work' = [work EXCEPT !.hs[h] = [NoReq EXCEPT !.pc = "wait", !.cmd = cmd],
                            !.overlap = @ \/ \E g \in Handlers : work.hs[g].pc # "idle"]
    /\ ncalls' = ncalls + 1
    /\ UNCHANGED <<writeMu, txs>>
    /\ WorkOnly

\* tm.Begin(false) returns
ReqBegin(h) ==
    /\ work.hs[h].pc = "wait"
    /\ ~Blocks(Mgr, FALSE)
    /\ writeMu' = Begin(Mgr, FALSE).writeMu /\ txs' = Begin(Mgr, FALSE).txs
    /\ work' = [work EXCEPT !.hs[h].pc = "begun", !.hs[h].tx = Len(txs) + 1]
    /\ UNCHANGED ncalls
    /\ WorkOnly

\* the engine call up to the tree: GetTableID and LoadTree; on an error the
\* call returns without a store
ReqLoad(h) ==
    /\ work.hs[h].pc = "begun"
    /\ IF ~GetTableID(meta, work.hs[h].cmd.Args[1]).ok
       THEN /\ work' = [work EXCEPT !.hs[h].pc = "stored"]
            /\ UNCHANGED <<ncalls, writeMu, txs>>
            /\ WorkOnly
       ELSE /\ WorkRan(LoadTableBlob(NoFault, meta.Tables[work.hs[h].cmd.Args[1]]))
            /\ work' = [work EXCEPT
                  !.hs[h].pc = IF LoadTree(NoFault, meta.Tables[work.hs[h].cmd.Args[1]]).ok
                               THEN "loaded" ELSE "stored",
                  !.hs[h].t = LoadTree(NoFault, meta.Tables[work.hs[h].cmd.Args[1]]).t]

\* the tree the request makes of the tree it loaded: tree.Insert, tree.Delete
Mutated(req) ==
    IF req.cmd.Name = "DELETE"
    THEN Delete(req.t, req.cmd.Args[2])
    ELSE [t |-> Insert(req.t, req.cmd.Args[2], req.cmd.Args[3]), ok |-> TRUE]
\* the rest of the engine call: the tree is changed and stored with StoreTree;
\* a Delete of a key that is not there returns without a store
ReqStore(h) ==
    /\ work.hs[h].pc = "loaded"
    /\ work' = [work EXCEPT !.hs[h].pc = "stored"]
    /\ IF ~Mutated(work.hs[h]).ok \/ ~GetTableID(meta, work.hs[h].cmd.Args[1]).ok
       THEN /\ UNCHANGED <<ncalls, writeMu, txs>>
            /\ WorkOnly
       ELSE WorkRan(StoreTree(NoFault, meta.Tables[work.hs[h].cmd.Args[1]],
                              Mutated(work.hs[h]).t))

\* curTx.Commit() of the TCP handler, the deferred tx.Commit() of the HTTP handler
ReqCommit(h) ==
    /\ work.hs[h].pc = "stored"
    /\ writeMu' = Commit(Mgr, work.hs[h].tx).writeMu
    /\ txs' = Commit(Mgr, work.hs[h].tx).txs
    /\ work' = [work EXCEPT !.hs[h] = NoReq, !.log = Append(@, work.hs[h].cmd)]
    /\ UNCHANGED ncalls
    /\ WorkOnly

\* a server on a database that holds the empty table "a"
InitWork ==
    InitFrom([CreateTable(InitRun, "a") EXCEPT !.ev = <<>>, !.trace = <<>>])
        /\ tree = New /\ ref = EmptyMap /\ opts = NoOptions
NextWork ==
    \/ \E h \in Handlers, cmd \in WorkCmds : ReqArrive(h, cmd)
    \/ \E h \in Handlers : ReqBegin(h)
    \/ \E h \in Handlers : ReqLoad(h)
    \/ \E h \in Handlers : ReqStore(h)
    \/ \E h \in Handlers : ReqCommit(h)
SpecWork == InitWork /\ [][NextWork]_vars

\* a table as a map: what the request does to it, run alone
Apply(m, cmd) ==
    IF cmd.Name = "DELETE" THEN MapDel(m, cmd.Args[2])
    ELSE MapPut(m, cmd.Args[2], cmd.Args[3])
\* the tables the requests log[i], i in S, leave of the empty table, run one
\* after the other in any order
RECURSIVE SerialResults(_, _)
SerialResults(log, S) ==
    IF S = {} THEN {EmptyMap}
    ELSE UNION {{Apply(m, log[i]) : m \in SerialResults(log, S \ {i})} : i \in S}
\* the table "a" as the process loads it
ContentOf(t) == [k \in {j \in Keys : Get(t, j).ok} |-> Get(t, k).value]
Content == ContentOf(LoadTree(NoFault, meta.Tables["a"]).t)
\* no request is between its Begin and its Commit
Quiet == \A h \in Handlers : work.hs[h].pc \in {"idle", "wait"}

\* C37: write requests that handlers of a server work on at the same time
\* leave in the table what they leave when run one after the other in some order.
C37_NoLostUpdate == Quiet => Content \in SerialResults(work.log, DOMAIN work.log)
\* two INSERTs of different keys, one coming in while the other was worked on,
\* are both done and both keys are in the table
C37_Witness ==
    /\ Quiet /\ work.overlap /\ ncalls = 2 /\ Len(work.log) = 2
    /\ work.log[1].Name = "INSERT" /\ work.log[2].Name = "INSERT"
    /\ DOMAIN Content = {1, 2}

\* ---------------------------------------------------------------------
\* a WAL that ends in a partial record
\* ---------------------------------------------------------------------
\* the bytes walAppendStore writes
storeRecord(tableID, blob) == <<1>> \o PutUint64(tableID) \o PutUint64(Len(blob)) \o blob
\* the files a process leaves that dies in the WAL append with n bytes of the
\* record written
TornFiles(rec, n) ==
    [Files(NoFault, "write") EXCEPT !.wal = FileWriteAt(wal, walOff, SubSeq(rec, 1, n)),
                                    !.stage = "wal_torn"]
\* the process dies in walAppendStore: part of the header, the header alone, or
\* the header and part of the blob are in the WAL
StoreBlobTorn(tableID, blob, n) ==
    /\ Ready /\ MayEnd /\ ncalls < MaxFailCalls
    /\ n < Len(storeRecord(tableID, blob))
    /\ CallDied(TornFiles(storeRecord(tableID, blob), n), "store", tableID, blob)

NextWal ==
    \/ \E i \in TableIds, b \in Blobs : StoreBlobDone(i, b)
    \/ \E i \in TableIds, b \in Blobs, n \in 1..(walHeaderSize + 1) : StoreBlobTorn(i, b, n)
    \/ \E i \in TableIds : LoadBlob(i)
    \/ OpenDb

SpecWal == Init /\ [][NextWal]_vars

\* the first Open after a process died in a WAL append is over
OpenedTorn == opens = 1 /\ call.halt = "crash" /\ call.stage = "wal_torn"

\* C38: Open on a WAL that ends in a partial record returns no error and leaves
\* the table of the partial record with the blob it had before.
C38_PartialTailIgnored ==
    OpenedTorn => /\ alive
                  /\ LoadAll[call.id] = call.pre[call.id]

\* ---------------------------------------------------------------------
\* the write lock and the right to write
\* ---------------------------------------------------------------------
\* connection c may not write: the server is read-only, or asks for a token
\* that c has not given
MayNotWrite(c) == conns[c].open /\ (opts.ReadOnly \/ ~conns[c].authed)

\* C39: a connection that may not write holds no transaction that has the
\* write lock, whatever commands it has sent, BEGIN included.
C39_NoLockWithoutRight ==
    \A c \in Conns :
        (MayNotWrite(c) /\ conns[c].curTx # 0) => ~txs[conns[c].curTx].writeHeld

\* ---------------------------------------------------------------------
\* the write lock within a session
\* ---------------------------------------------------------------------
\* the locals of a handler agree: curTx is set exactly in a write transaction,
\* and the Tx it points to holds the lock
LocalsAgree(conn) ==
    /\ conn.curTx # 0 <=> (conn.inTx /\ conn.writeTx)
    /\ conn.curTx # 0 => txs[conn.curTx].writeHeld
\* the last command was a write command that called the engine
WriteRan == srvOp.cmd \in WriteNames /\ srvOp.reply \in {"OK", "ERR"}
\* ... inside a transaction begun for it: that Tx, the last one begun, is ended
\* and the handler is out of it
ImplicitEnded ==
    /\ ~txs[Len(txs)].writeHeld /\ txs[Len(txs)].ends = 1
    /\ srvOp.conn1.curTx = 0 /\ ~srvOp.conn1.inTx

====
